---- MODULE Spec2Model ----
(***************************************************************************)
(* TS-Mock-Proxy: type resolution and routing engine.                      *)
(*                                                                         *)
(* Strings the code inspects character by character (URLs, path names,     *)
(* interface names, cache keys) are tuples of one-character strings, so    *)
(* that split, join, endsWith, toPascalCase and the cache key are computed *)
(* as the code computes them.                                              *)
(*                                                                         *)
(* Twelve specifications share the variables:                              *)
(*   SpecCatalog  buildTypeMap / findTypeForUrl as pure functions of a     *)
(*                directory list and a filesystem drawn by Init;           *)
(*   SpecNames    toPascalCase / parseUrlToType as pure functions of a     *)
(*                string drawn by Init;                                    *)
(*   SpecBuilds   buildTypeMap called again and again while the files      *)
(*                change, unreadable files included;                       *)
(*   SpecCache    one SchemaCache object driven through its public methods *)
(*                (as tests/core/cache.test.ts does);                      *)
(*   Spec         the running server: requests through the proxy gate and  *)
(*                the dynamic route handler, external edits of the         *)
(*                contract files, and the file watcher's callbacks;        *)
(*   SpecLookup   one call of findTypeForUrl, directory by directory, with *)
(*                the file edits and callbacks that can come in meanwhile; *)
(*   SpecStartup  the command line's default action up to startServer or   *)
(*                to the exit;                                             *)
(*   SpecShapes   typeToOpenAPISchema over drawn field declarations;       *)
(*   SpecArrays   generateMockArray, one turn of its loop at a time;       *)
(*   SpecWatched  the server with hot-reload, a contract file whose name   *)
(*                starts with a dot, and bursts of watch events;           *)
(*   SpecStatus   the dynamic route handler under x-mock-status headers;   *)
(*   SpecPaths    the paths generateOpenAPISpec lists, given to the        *)
(*                resolver.                                                *)
(***************************************************************************)
EXTENDS Integers, Sequences, FiniteSets, TLC

VARIABLES
  disk,      \* the filesystem: file path -> content
  dirs,      \* SpecCatalog: the directory list given to buildTypeMap
  built,     \* the call of the function under study: arguments, progress, result
  cache,     \* SchemaCache.cache : Map<string, ParsedSchema>
  enabled,   \* SchemaCache.enabled
  now,       \* Date.now()
  got,       \* SpecCache: the last method call, its arguments and what it returned
  config,    \* ServerConfig of the running server
  events,    \* watcher events emitted by chokidar and not yet delivered
  req,       \* the request being handled (its position in the middleware chain)
  resp,      \* the answer written by the step just taken, if it wrote one
  last,      \* the latest singular mock answer and what happened since
  present,   \* the directories that exist
  cli        \* the command line's action: its options and how far it has run

vars == <<disk, dirs, built, cache, enabled, now, got, config, events, req, resp, last,
          present, cli>>

----------------------------------------------------------------------------
(* Bounds *)

\* Revisions a file's text can take (an edit that keeps the declared names).
MaxRev == 1
\* Outcomes of the random generator for one interface of one file text.
MaxRnd == 2
\* Largest value of the clock in SpecCache.
MaxTime == 1
\* Watcher events emitted and not yet delivered.
MaxQueue == 1
\* Length of the strings SpecNames draws over its alphabet.
MaxStr == 3

----------------------------------------------------------------------------
(* Character strings *)

Lower == <<"a","b","c","d","e","f","g","h","i","j","k","l","m",
           "n","o","p","q","r","s","t","u","v","w","x","y","z">>
Upper == <<"A","B","C","D","E","F","G","H","I","J","K","L","M",
           "N","O","P","Q","R","S","T","U","V","W","X","Y","Z">>

\* String.prototype.toUpperCase on one character
toUpperCase(c) ==
  IF \E i \in 1..26 : Lower[i] = c
  THEN Upper[CHOOSE i \in 1..26 : Lower[i] = c]
  ELSE c

\* String.prototype.endsWith
endsWith(s, suffix) ==
  /\ Len(s) >= Len(suffix)
  /\ SubSeq(s, Len(s) - Len(suffix) + 1, Len(s)) = suffix

\* String.prototype.split(sep) for a one-character separator
RECURSIVE splitFrom(_, _, _)
splitFrom(s, sep, cur) ==
  IF s = <<>> THEN <<cur>>
  ELSE IF Head(s) = sep THEN <<cur>> \o splitFrom(Tail(s), sep, <<>>)
  ELSE splitFrom(Tail(s), sep, Append(cur, Head(s)))

split(s, sep) == splitFrom(s, sep, <<>>)

\* path.join(dir, name)
pathJoin(dir, name) == dir \o <<"/">> \o name

S_ts == <<".","t","s">>
S_a == <<"/","a">>
S_b == <<"/","b">>
S_c == <<"/","c">>
S_types_ts == <<"t","y","p","e","s",".","t","s">>
S_user_ts == <<"u","s","e","r",".","t","s">>
S_dep_ts == <<"d","e","p",".","t","s">>
S_notes_md == <<"n","o","t","e","s",".","m","d">>
S_models == <<"m","o","d","e","l","s">>
S_order_ts == <<"o","r","d","e","r",".","t","s">>
S_gen_ts == <<"g","e","n",".","t","s">>
S_out_ts == <<"o","u","t",".","t","s">>
S_hook_ts == <<"h","o","o","k",".","t","s">>
S_node_modules == <<"n","o","d","e","_","m","o","d","u","l","e","s">>
S_dist == <<"d","i","s","t">>
S_build == <<"b","u","i","l","d">>
S_git == <<".","g","i","t">>
S_draft_ts == <<".","d","r","a","f","t",".","t","s">>
S_User == <<"U","s","e","r">>
S_Post == <<"P","o","s","t">>
S_Order == <<"O","r","d","e","r">>

----------------------------------------------------------------------------
(* The filesystem *)

\* The tree the model walks: directory -> its entries in readdir order.
\* /c is a root that does not exist.
Listing ==
  (S_a :> << [name |-> S_draft_ts, isDir |-> FALSE],
             [name |-> S_dist, isDir |-> TRUE],
             [name |-> S_models, isDir |-> TRUE],
             [name |-> S_types_ts, isDir |-> FALSE] >>) @@
  (pathJoin(S_a, S_dist) :> << [name |-> S_out_ts, isDir |-> FALSE] >>) @@
  (pathJoin(S_a, S_models) :> << [name |-> S_build, isDir |-> TRUE],
                                 [name |-> S_order_ts, isDir |-> FALSE] >>) @@
  (pathJoin(pathJoin(S_a, S_models), S_build) :>
             << [name |-> S_gen_ts, isDir |-> FALSE] >>) @@
  (S_b :> << [name |-> S_git, isDir |-> TRUE],
             [name |-> S_node_modules, isDir |-> TRUE],
             [name |-> S_notes_md, isDir |-> FALSE],
             [name |-> S_user_ts, isDir |-> FALSE] >>) @@
  (pathJoin(S_b, S_git) :> << [name |-> S_hook_ts, isDir |-> FALSE] >>) @@
  (pathJoin(S_b, S_node_modules) :> << [name |-> S_dep_ts, isDir |-> FALSE] >>)

F_a_types == pathJoin(S_a, S_types_ts)
F_a_draft == pathJoin(S_a, S_draft_ts)
F_a_order == pathJoin(pathJoin(S_a, S_models), S_order_ts)
F_a_gen == pathJoin(pathJoin(pathJoin(S_a, S_models), S_build), S_gen_ts)
F_a_out == pathJoin(pathJoin(S_a, S_dist), S_out_ts)
F_b_user == pathJoin(S_b, S_user_ts)
F_b_notes == pathJoin(S_b, S_notes_md)
F_b_dep == pathJoin(pathJoin(S_b, S_node_modules), S_dep_ts)
F_b_hook == pathJoin(pathJoin(S_b, S_git), S_hook_ts)

\* the files under the directories of the denylist
DeniedFiles == {F_a_gen, F_a_out, F_b_dep, F_b_hook}
Files == {F_a_types, F_a_draft, F_a_order, F_b_user, F_b_notes} \cup DeniedFiles

\* Interface names, in the order a file's text declares them.
NameOrder == <<S_Post, S_User>>
Names == {NameOrder[i] : i \in 1..Len(NameOrder)}

\* A file's text, as far as the program reads it: the interfaces it exports
\* and a revision standing for the rest of the text.
Absent == [exists |-> FALSE, decls |-> {}, rev |-> 0]
\* a file that is there and cannot be read (no read permission)
Unreadable == [exists |-> TRUE, decls |-> {}, rev |-> 0, readable |-> FALSE]
Texts == [exists : {TRUE}, decls : SUBSET Names, rev : 0..MaxRev]

\* fs.existsSync(dir)
existsSync(dir) == dir \in present

\* fs.readdirSync(dir, {withFileTypes: true}): the entries present
readdirSync(dir) ==
  SelectSeq(Listing[dir],
            LAMBDA e : e.isDir \/ disk[pathJoin(dir, e.name)].exists)

----------------------------------------------------------------------------
(* utils/typeMapping.ts *)

\* the denylist without .git
Denylist_withoutGit == {S_node_modules, S_dist, S_build}

Denylist == {S_node_modules, S_dist, S_build, S_git}

\* findTypeScriptFiles: the .ts files under dir, in scan order
RECURSIVE scan(_), scanEntries(_, _)
scan(currentDir) ==
  IF ~existsSync(currentDir) THEN <<>>
  ELSE scanEntries(currentDir, readdirSync(currentDir))

scanEntries(currentDir, entries) ==
  IF entries = <<>> THEN <<>>
  ELSE LET entry == Head(entries)
           fullPath == pathJoin(currentDir, entry.name)
           found == IF entry.isDir
                    THEN IF entry.name \notin Denylist THEN scan(fullPath) ELSE <<>>
                    ELSE IF endsWith(entry.name, S_ts) THEN <<fullPath>> ELSE <<>>
       IN  found \o scanEntries(currentDir, Tail(entries))

findTypeScriptFiles(dir) == scan(dir)

\* what a call evaluates to when it throws; ThrowsMap where the call would
\* return a Map (its key is no identifier, so it is no catalog)
Throws == [throws |-> TRUE]
ThrowsMap == (<<"!">> :> <<"!">>)

\* fs.readFileSync(filePath, 'utf-8')
readFileSync(filePath) ==
  IF ~disk[filePath].exists \/ disk[filePath] = Unreadable THEN Throws
  ELSE disk[filePath]

\* extractInterfaceNames: the names after "export interface", in text order;
\* the read is not guarded
extractInterfaceNames(filePath) ==
  LET content == readFileSync(filePath)
  IN  IF content = Throws THEN Throws
      ELSE SelectSeq(NameOrder, LAMBDA n : n \in content.decls)

\* addInterfaces with the `if (!typeMap.has(interfaceName))` test left out: a
\* later occurrence overwrites an earlier one
RECURSIVE addInterfaces_lastWins(_, _, _)
addInterfaces_lastWins(typeMap, file, interfaces) ==
  IF interfaces = <<>> THEN typeMap
  ELSE LET interfaceName == Head(interfaces)
       IN  addInterfaces_lastWins(
             [n \in DOMAIN typeMap \cup {interfaceName} |->
                IF n = interfaceName THEN file ELSE typeMap[n]],
             file, Tail(interfaces))

\* the innermost loop of buildTypeMap: typeMap.has / typeMap.set
RECURSIVE addInterfaces(_, _, _)
addInterfaces(typeMap, file, interfaces) ==
  IF interfaces = <<>> THEN typeMap
  ELSE LET interfaceName == Head(interfaces)
       IN  addInterfaces(IF interfaceName \notin DOMAIN typeMap
                         THEN typeMap @@ (interfaceName :> file)
                         ELSE typeMap,
                         file, Tail(interfaces))

\* the loop over the files of one directory; the exception of the read in
\* extractInterfaceNames leaves the loop
RECURSIVE addFiles(_, _)
addFiles(typeMap, files) ==
  IF files = <<>> THEN typeMap
  ELSE IF readFileSync(Head(files)) = Throws THEN ThrowsMap
  ELSE addFiles(addInterfaces(typeMap, Head(files), extractInterfaceNames(Head(files))),
                Tail(files))

\* the loop over the directories; nothing in buildTypeMap catches
RECURSIVE addDirectories(_, _)
addDirectories(typeMap, directories) ==
  IF directories = <<>> THEN typeMap
  ELSE LET added == addFiles(typeMap, findTypeScriptFiles(Head(directories)))
       IN  IF added = ThrowsMap THEN ThrowsMap
           ELSE addDirectories(added, Tail(directories))

\* buildTypeMap: Map<TypeName, FilePath>
buildTypeMap(directories) == addDirectories(<<>>, directories)

----------------------------------------------------------------------------
(* utils/pluralize.ts *)

\* String.prototype.toLowerCase on one character, and on a word
toLowerChar(c) ==
  IF \E i \in 1..26 : Upper[i] = c
  THEN Lower[CHOOSE i \in 1..26 : Upper[i] = c]
  ELSE c

toLowerCase(s) == [i \in 1..Len(s) |-> toLowerChar(s[i])]

S_people == <<"p","e","o","p","l","e">>
S_person == <<"p","e","r","s","o","n">>
S_children == <<"c","h","i","l","d","r","e","n">>
S_child == <<"c","h","i","l","d">>

\* npm pluralize: the irregular plural forms and their singulars
IrregularPlurals == (S_people :> S_person) @@ (S_children :> S_child)
IrregularSingles == (S_person :> S_people) @@ (S_child :> S_children)

\* npm pluralize: words it keeps as they are in both directions (two of its
\* list of uncountable words)
S_equipment == <<"e","q","u","i","p","m","e","n","t">>
S_news == <<"n","e","w","s">>
Uncountables == {S_equipment, S_news}

\* npm pluralize, sanitizeWord under the plural rules: an empty word, an
\* uncountable word and a word that ends in a single s stay as they are, any
\* other word takes an ending
pluralRule(token) ==
  IF token = <<>> \/ token \in Uncountables THEN token
  ELSE IF endsWith(token, <<"s">>) /\ ~endsWith(token, <<"s","s">>) THEN token
  ELSE token \o <<"s">>

\* npm pluralize, sanitizeWord under the singular rules
singularRule(word) ==
  IF word = <<>> \/ toLowerCase(word) \in Uncountables THEN word
  ELSE IF endsWith(word, <<"s","s">>) THEN word
  ELSE IF Len(word) > 3 /\ endsWith(word, <<"i","e","s">>)
       THEN SubSeq(word, 1, Len(word) - 3) \o <<"y">>
  ELSE IF endsWith(word, <<"s">>) THEN SubSeq(word, 1, Len(word) - 1)
  ELSE word

\* pluralize.isPlural
isPlural(word) ==
  LET token == toLowerCase(word)
  IN  IF token \in DOMAIN IrregularPlurals THEN TRUE
      ELSE IF token \in DOMAIN IrregularSingles THEN FALSE
      ELSE pluralRule(token) = token

\* pluralize.singular
singular(word) ==
  LET token == toLowerCase(word)
  IN  IF token \in DOMAIN IrregularSingles THEN word
      ELSE IF token \in DOMAIN IrregularPlurals THEN IrregularPlurals[token]
      ELSE singularRule(word)

\* toPascalCase without its first replace
toPascalCase_firstOnly(str) ==
  IF str = <<>> THEN <<>> ELSE <<toUpperCase(Head(str))>> \o Tail(str)

\* toPascalCase, first replace: /[-_]+(.)?/g -> the captured character in upper case
IsSep(c) == c \in {"-", "_"}

RECURSIVE replaceSeparators(_)
replaceSeparators(str) ==
  IF str = <<>> THEN <<>>
  ELSE IF IsSep(Head(str))
       THEN LET rest == Tail(str)
            IN  IF rest = <<>> THEN <<>>
                ELSE IF IsSep(Head(rest)) THEN replaceSeparators(rest)
                ELSE <<toUpperCase(Head(rest))>> \o replaceSeparators(Tail(rest))
  ELSE <<Head(str)>> \o replaceSeparators(Tail(str))

\* toPascalCase, second replace: /^(.)/ -> upper case
upperFirst(str) ==
  IF str = <<>> THEN <<>> ELSE <<toUpperCase(Head(str))>> \o Tail(str)

toPascalCase(str) == upperFirst(replaceSeparators(str))

\* extractLastSegment: url.split('/').filter(Boolean), last element or ''
extractLastSegment(url) ==
  LET segments == SelectSeq(split(url, "/"), LAMBDA x : x # <<>>)
  IN  IF segments = <<>> THEN <<>> ELSE segments[Len(segments)]

urlSegmentToTypeName(urlSegment) ==
  LET plural == isPlural(urlSegment)
      single == IF plural THEN singular(urlSegment) ELSE urlSegment
  IN  [typeName |-> toPascalCase(single), isArray |-> plural]

parseUrlToType(url) == urlSegmentToTypeName(extractLastSegment(url))

----------------------------------------------------------------------------
(* utils/typeMapping.ts: findTypeForUrl *)

NoMapping == [found |-> FALSE, typeName |-> <<>>, isArray |-> FALSE, filePath |-> <<>>]

\* findTypeForUrl answering a miss with some entry of the catalog
findTypeForUrl_anyOnMiss(url, directories) ==
  LET parsed == parseUrlToType(url)
      typeMap == buildTypeMap(directories)
      typeName == IF parsed.typeName \in DOMAIN typeMap \/ DOMAIN typeMap = {}
                  THEN parsed.typeName
                  ELSE CHOOSE n \in DOMAIN typeMap : TRUE
  IN  IF typeName \notin DOMAIN typeMap THEN NoMapping
      ELSE [found |-> TRUE, typeName |-> typeName,
            isArray |-> parsed.isArray, filePath |-> typeMap[typeName]]

findTypeForUrl(url, directories) ==
  LET parsed == parseUrlToType(url)
      typeMap == buildTypeMap(directories)
  IN  IF typeMap = ThrowsMap THEN Throws
      ELSE IF parsed.typeName \notin DOMAIN typeMap THEN NoMapping
      ELSE [found |-> TRUE, typeName |-> parsed.typeName,
            isArray |-> parsed.isArray, filePath |-> typeMap[parsed.typeName]]

----------------------------------------------------------------------------
(* core/cache.ts: SchemaCache *)

\* what Map.get and SchemaCache.get return when there is no entry
Undefined == [undefined |-> TRUE]

\* a generated object: the interface it mocks, the revision of the text it
\* was generated from, and the generator's random outcome
Schema(interfaceName, rev, rnd) ==
  [array |-> FALSE, of |-> interfaceName, rev |-> rev, rnd |-> rnd]

\* generateKey with the file left out of the key
generateKey_nameOnly(interfaceName, filePath) == interfaceName

generateKey(interfaceName, filePath) == filePath \o <<":", ":">> \o interfaceName

\* SchemaCache.get
cacheGet(interfaceName, filePath) ==
  IF ~enabled THEN Undefined
  ELSE LET key == generateKey(interfaceName, filePath)
       IN  IF key \in DOMAIN cache THEN cache[key] ELSE Undefined

\* set with its guard inverted: an enabled cache stores nothing
cacheSet_invertedGuard(interfaceName, filePath, schema) ==
  IF enabled THEN cache
  ELSE LET key == generateKey(interfaceName, filePath)
           parsedSchema == [interfaceName |-> interfaceName, filePath |-> filePath,
                            schema |-> schema, lastUpdated |-> now]
       IN  [k \in DOMAIN cache \cup {key} |-> IF k = key THEN parsedSchema ELSE cache[k]]

\* set keeping the entry a pair already has
cacheSet_keepFirst(interfaceName, filePath, schema) ==
  IF ~enabled THEN cache
  ELSE LET key == generateKey(interfaceName, filePath)
           parsedSchema == [interfaceName |-> interfaceName, filePath |-> filePath,
                            schema |-> schema, lastUpdated |-> now]
       IN  IF key \in DOMAIN cache THEN cache ELSE cache @@ (key :> parsedSchema)

\* set storing the two fields of the pair in each other's place
cacheSet_swappedFields(interfaceName, filePath, schema) ==
  IF ~enabled THEN cache
  ELSE LET key == generateKey(interfaceName, filePath)
           parsedSchema == [interfaceName |-> filePath, filePath |-> interfaceName,
                            schema |-> schema, lastUpdated |-> now]
       IN  [k \in DOMAIN cache \cup {key} |-> IF k = key THEN parsedSchema ELSE cache[k]]

\* SchemaCache.set: the map after the call
cacheSet(interfaceName, filePath, schema) ==
  IF ~enabled THEN cache
  ELSE LET key == generateKey(interfaceName, filePath)
           parsedSchema == [interfaceName |-> interfaceName, filePath |-> filePath,
                            schema |-> schema, lastUpdated |-> now]
       IN  [k \in DOMAIN cache \cup {key} |-> IF k = key THEN parsedSchema ELSE cache[k]]

\* invalidateFile emptying the cache when no entry is of the file
cacheInvalidateFile_clearsOnMiss(filePath) ==
  IF \E x \in DOMAIN cache : cache[x].filePath = filePath
  THEN [k \in {x \in DOMAIN cache : cache[x].filePath # filePath} |-> cache[k]]
  ELSE <<>>

\* invalidateFile comparing the key, not the entry's filePath, with the file
cacheInvalidateFile_byKey(filePath) ==
  [k \in {x \in DOMAIN cache : x # filePath} |-> cache[k]]

\* SchemaCache.invalidateFile: the map after the call
cacheInvalidateFile(filePath) ==
  [k \in {x \in DOMAIN cache : cache[x].filePath # filePath} |-> cache[k]]

\* clear sparing the entries of the contracts directory
cacheClear_sparesLocal ==
  [k \in {x \in DOMAIN cache : cache[x].filePath = F_a_types} |-> cache[k]]

\* SchemaCache.clear: the map after the call
cacheClear == <<>>

\* SchemaCache.size
cacheSize == Cardinality(DOMAIN cache)

\* getStats with the subtraction of the age turned round
getStats_ageReversed ==
  [size |-> Cardinality(DOMAIN cache),
   enabled |-> enabled,
   schemas |-> {[interfaceName |-> cache[k].interfaceName,
                 filePath |-> cache[k].filePath,
                 age |-> cache[k].lastUpdated - now] : k \in DOMAIN cache}]

\* SchemaCache.getStats
getStats ==
  [size |-> Cardinality(DOMAIN cache),
   enabled |-> enabled,
   schemas |-> {[interfaceName |-> cache[k].interfaceName,
                 filePath |-> cache[k].filePath,
                 age |-> now - cache[k].lastUpdated] : k \in DOMAIN cache}]

----------------------------------------------------------------------------
(* Values of the server's variables while the server is not the subject *)

Idle == [pc |-> "idle", url |-> <<>>, forcedStatus |-> 0, mapping |-> NoMapping]
NoResponse == [status |-> 0, kind |-> "none"]
NoLast == [valid |-> FALSE]
NoConfig == [contractsDir |-> S_a, externalDirs |-> <<>>, targetUrl |-> FALSE,
             hotReload |-> FALSE, cache |-> TRUE]
NoBuild == [op |-> "none"]
NoCall == [op |-> "none"]
NoCli == [pc |-> "none"]
EmptyDisk == [f \in Files |-> Absent]

----------------------------------------------------------------------------
(* SpecCatalog: buildTypeMap and findTypeForUrl over a drawn filesystem *)

\* the directory lists tried: both orders of /a and /b, single roots, a root
\* that does not exist, and a root given twice
DirLists == { <<S_a, S_b>>, <<S_b, S_a>>, <<S_a>>, <<S_b>>, <<S_c, S_b>>, <<S_b, S_b>> }

U_users == <<"/","a","p","i","/","v","1","/","u","s","e","r","s">>
U_user == <<"/","a","p","i","/","u","s","e","r">>
U_orders == <<"/","a","p","i","/","o","r","d","e","r","s">>
U_root == <<"/">>
U_empty == <<>>
Urls == {U_users, U_user, U_orders, U_root}

\* the roots findTypeScriptFiles is called with: the directories, a root that
\* does not exist, a subdirectory, and a root that is itself named
\* node_modules
ScanRoots == {S_a, S_b, S_c, pathJoin(S_a, S_models), pathJoin(S_b, S_node_modules)}

\* the text of a file that declares every name
TextOfAll == [exists |-> TRUE, decls |-> Names, rev |-> 0]

\* the filesystems drawn: any text in /a/types.ts and /b/user.ts, Post or
\* nothing in /a/models/order.ts, and the files that are no .ts file or lie
\* under a directory of the denylist there, declaring every name, or not
InitCatalog ==
  /\ \E ta, tb \in {Absent} \cup {t \in Texts : t.rev = 0},
        to \in {Absent, [exists |-> TRUE, decls |-> {S_Post}, rev |-> 0]},
        tn, td \in {Absent, TextOfAll} :
       disk = [f \in Files |->
                 IF f = F_a_types THEN ta
                 ELSE IF f = F_a_draft THEN Absent
                 ELSE IF f = F_b_user THEN tb
                 ELSE IF f = F_a_order THEN to
                 ELSE IF f = F_b_notes THEN tn
                 ELSE td]
  /\ dirs \in DirLists
  /\ built = NoBuild
  /\ cache = <<>> /\ enabled = TRUE /\ now = 0 /\ got = NoCall
  /\ present = DOMAIN Listing /\ cli = NoCli
  /\ config = NoConfig /\ events = <<>> /\ req = Idle
  /\ resp = NoResponse /\ last = NoLast

\* buildTypeMap filling one Map for every call: each call adds to the map
\* the call before it returned, and returns that same object
Build_sharedMap ==
  /\ LET shared == IF built.op = "buildTypeMap" /\ built.typeMap # ThrowsMap
                   THEN built.typeMap ELSE <<>>
         typeMap == addDirectories(shared, dirs)
     IN  built' = [op |-> "buildTypeMap", typeMap |-> typeMap, fsAt |-> disk,
                   again |-> built.op = "buildTypeMap",
                   earlier |-> IF built.op = "buildTypeMap" THEN typeMap ELSE <<>>]
  /\ UNCHANGED <<disk, dirs, cache, enabled, now, got, config, events, req, resp, last, present, cli>>

\* a call of buildTypeMap(dirs).  fsAt is the filesystem the call read.
\* When there was a call before this one (again), earlier is the Map that
\* call returned, as it is after this call: buildTypeMap fills a `new Map()`
\* of its own and writes to nothing else, so that object is as it was
\* returned.
Build ==
  /\ built' = [op |-> "buildTypeMap", typeMap |-> buildTypeMap(dirs), fsAt |-> disk,
               again |-> built.op = "buildTypeMap",
               earlier |-> IF built.op = "buildTypeMap" THEN built.typeMap ELSE <<>>]
  /\ UNCHANGED <<disk, dirs, cache, enabled, now, got, config, events, req, resp, last, present, cli>>

\* a call of findTypeForUrl(url, dirs)
Find ==
  \E url \in Urls \cup {U_empty} :
    /\ built' = [op |-> "findTypeForUrl", url |-> url, mapping |-> findTypeForUrl(url, dirs)]
    /\ UNCHANGED <<disk, dirs, cache, enabled, now, got, config, events, req, resp, last, present, cli>>

\* a call of findTypeScriptFiles(dir)
Scan ==
  \E dir \in ScanRoots :
    /\ built' = [op |-> "findTypeScriptFiles", dir |-> dir, files |-> findTypeScriptFiles(dir)]
    /\ UNCHANGED <<disk, dirs, cache, enabled, now, got, config, events, req, resp, last, present, cli>>

NextCatalog == Build \/ Find \/ Scan

SpecCatalog == InitCatalog /\ [][NextCatalog]_vars

----------------------------------------------------------------------------
(* SpecNames: toPascalCase and parseUrlToType over drawn strings *)

Alphabet == {"a", "B", "s", "-", "_", "/"}
Strings == UNION {[1..n -> Alphabet] : n \in 0..MaxStr}

\* the paths of tests/utils/pluralize.test.ts and of the README: a segment
\* behind a prefix, with or without slashes after it
Segments ==
  { <<"u","s","e","r","s">>, <<"u","s","e","r">>, <<"p","e","o","p","l","e">>, <<"p","e","r","s","o","n">>, <<"c","h","i","l","d","r","e","n">>, <<"c","h","i","l","d">>,
    <<"p","r","o","d","u","c","t","-","i","t","e","m","s">>, <<"u","s","e","r","-","p","r","o","f","i","l","e","s">>, <<"p","r","o","f","i","l","e">>, <<"u","s","e","r","_","p","r","o","f","i","l","e">>,
    <<"o","r","d","e","r","s">>, S_equipment, S_news, <<>> }
Prefixes == { <<>>, <<"/">>, <<"/","a","p","i","/">>, <<"/","a","p","i","/","v","1","/">>, <<"/","a","p","i","/","/">> }
Trailers == { <<>>, <<"/">>, <<"/","/">> }
Paths == {p \o w \o t : p \in Prefixes, w \in Segments, t \in Trailers}

InitNames ==
  /\ built \in [op : {"none"}, str : Strings \cup Paths]
  /\ disk = EmptyDisk /\ dirs = <<>>
  /\ cache = <<>> /\ enabled = TRUE /\ now = 0 /\ got = NoCall
  /\ present = DOMAIN Listing /\ cli = NoCli
  /\ config = NoConfig /\ events = <<>> /\ req = Idle
  /\ resp = NoResponse /\ last = NoLast

\* a call of toPascalCase(str)
ToPascalCase ==
  /\ built' = [op |-> "toPascalCase", str |-> built.str,
               result |-> toPascalCase(built.str)]
  /\ UNCHANGED <<disk, dirs, cache, enabled, now, got, config, events, req, resp, last, present, cli>>

\* a call of parseUrlToType(str)
ParseUrlToType ==
  /\ built' = [op |-> "parseUrlToType", str |-> built.str,
               result |-> parseUrlToType(built.str)]
  /\ UNCHANGED <<disk, dirs, cache, enabled, now, got, config, events, req, resp, last, present, cli>>

NextNames == ToPascalCase \/ ParseUrlToType

SpecNames == InitNames /\ [][NextNames]_vars

----------------------------------------------------------------------------
(* SpecCache: one SchemaCache object and its callers *)

CacheFiles == {F_a_types, F_b_user}

InitCache ==
  /\ cache = <<>>
  /\ enabled \in BOOLEAN
  /\ present = DOMAIN Listing /\ cli = NoCli
  /\ now = 0
  /\ got = NoCall
  /\ disk = EmptyDisk /\ dirs = <<>> /\ built = NoBuild
  /\ config = NoConfig /\ events = <<>> /\ req = Idle
  /\ resp = NoResponse /\ last = NoLast

CacheSet(interfaceName, filePath, schema) ==
  /\ cache' = cacheSet(interfaceName, filePath, schema)
  /\ got' = [op |-> "set", interfaceName |-> interfaceName, filePath |-> filePath]
  /\ UNCHANGED <<disk, dirs, built, enabled, now, config, events, req, resp, last, present, cli>>

CacheGet(interfaceName, filePath) ==
  /\ got' = LET cached == cacheGet(interfaceName, filePath)
            IN  [op |-> "get",
                 result |-> IF cached = Undefined THEN Undefined ELSE cached.schema]
  /\ UNCHANGED <<disk, dirs, built, cache, enabled, now, config, events, req, resp, last, present, cli>>

\* `count` is the number of entries the loop of invalidateFile deleted
CacheInvalidateFile(filePath) ==
  /\ cache' = cacheInvalidateFile(filePath)
  /\ got' = [op |-> "invalidateFile", filePath |-> filePath,
             count |-> Cardinality({k \in DOMAIN cache : cache[k].filePath = filePath})]
  /\ UNCHANGED <<disk, dirs, built, enabled, now, config, events, req, resp, last, present, cli>>

\* `size` is the entry count clear reads before it empties the map
CacheClear ==
  /\ cache' = cacheClear
  /\ got' = [op |-> "clear", size |-> cacheSize]
  /\ UNCHANGED <<disk, dirs, built, enabled, now, config, events, req, resp, last, present, cli>>

\* time passes
Tick ==
  /\ now < MaxTime
  /\ now' = now + 1
  /\ UNCHANGED <<disk, dirs, built, cache, enabled, got, config, events, req, resp, last, present, cli>>

NextCache ==
  \/ \E n \in Names, f \in CacheFiles, r \in 1..MaxRnd : CacheSet(n, f, Schema(n, 0, r))
  \/ \E n \in Names, f \in CacheFiles : CacheGet(n, f)
  \/ \E f \in CacheFiles : CacheInvalidateFile(f)
  \/ CacheClear
  \/ Tick

SpecCache == InitCache /\ [][NextCache]_vars

----------------------------------------------------------------------------
(* Spec: the running server *)

\* the list without the external directories
allDirs_contractsOnly == <<config.contractsDir>>

\* [config.contractsDir, ...(config.externalDirs || [])]
allDirs == <<config.contractsDir>> \o config.externalDirs

\* middlewares/statusOverride.ts: res.locals.forcedStatus for an x-mock-status
\* header (NoHeader: the request carries none); 0 stands for "not set"
NoHeader == -1
statusOverride(mockStatus) ==
  IF mockStatus # NoHeader /\ mockStatus >= 100 /\ mockStatus < 600
  THEN mockStatus ELSE 0

\* `forcedStatus || code`
orElse(forcedStatus, code) == IF forcedStatus # 0 THEN forcedStatus ELSE code

\* core/router.ts: `config.cache && mapping.filePath && !mapping.isArray`, the
\* test before schemaCache.get and again before schemaCache.set
shouldCache_arraysToo(mapping) == config.cache /\ mapping.filePath # <<>>

shouldCache_ignoresConfig(mapping) == mapping.filePath # <<>> /\ ~mapping.isArray

shouldCache(mapping) == config.cache /\ mapping.filePath # <<>> /\ ~mapping.isArray

\* core/parser.ts generateMockFromInterface: the objects it can return for the
\* text on disk; none when the file cannot be read or does not hold the
\* interface (the function throws)
generateMockFromInterface(filePath, interfaceName) ==
  IF disk[filePath].exists /\ interfaceName \in disk[filePath].decls
  THEN {Schema(interfaceName, disk[filePath].rev, r) : r \in 1..MaxRnd}
  ELSE {}

\* core/parser.ts generateMockFromInterface: the message of what the try
\* block raises when no object comes out of it, the error of readFileSync for
\* a missing file or the `Interface "..." not found in file` of its own
generationCause(filePath, interfaceName) ==
  IF ~disk[filePath].exists THEN "ENOENT: no such file or directory"
  ELSE "Interface not found in file"

\* the rethrown error leaving the caught one out
failedToGenerate_withoutCause(interfaceName, cause) ==
  <<"Failed to generate mock for", interfaceName, "">>

\* core/parser.ts generateMockFromInterface, the catch block: the message of
\* the Error it throws, `Failed to generate mock for ${interfaceName}: ${cause}`
failedToGenerate(interfaceName, cause) ==
  <<"Failed to generate mock for", interfaceName, cause>>

\* the random length with 9 for the factor
getRandomArrayLength_upTo11 == 3..11

\* core/parser.ts getRandomArrayLength: Math.floor(Math.random() * 8) + 3
getRandomArrayLength == 3..10

\* core/parser.ts generateMockArray: the arrays it can return; an array is
\* recorded by its length and the interface and text its items come from
generateMockArray(filePath, interfaceName) ==
  IF generateMockFromInterface(filePath, interfaceName) = {} THEN {}
  ELSE {[array |-> TRUE, of |-> interfaceName, rev |-> disk[filePath].rev, length |-> n]
          : n \in getRandomArrayLength}

\* core/proxy.ts:30, `res instanceof Response` in onError.  express exports
\* Response as a type only, so the compiled test is against the global
\* Response (the fetch class) where there is one, and the ServerResponse
\* handed to onError is no instance of it; where there is none the test
\* throws.  Either way the branch that writes the 502 is not taken.
resInstanceofResponse == FALSE

\* utils/fileWatcher.ts: chokidar watches <dir>/**/*.ts for every directory and
\* ignores any path with a component that starts with a dot
hidden(filePath) ==
  \E i \in 1..Len(split(filePath, "/")) :
    LET part == split(filePath, "/")[i] IN part # <<>> /\ Head(part) = "."

under(filePath, dir) ==
  /\ Len(filePath) > Len(dir) + 1
  /\ SubSeq(filePath, 1, Len(dir) + 1) = dir \o <<"/">>

watched(filePath) ==
  /\ config.hotReload
  /\ endsWith(filePath, S_ts)
  /\ ~hidden(filePath)
  /\ \E i \in 1..Len(allDirs) : under(filePath, allDirs[i])

\* the file edited while the server runs and the texts it is given; the
\* lower-priority /b/user.ts is there from the start or never
EditFiles == {F_a_types}
EditTexts == {t \in Texts : t.decls = {S_User}}
StartTexts == {t \in EditTexts : t.rev = 0}
Headers == {NoHeader, 201, 500, 700}

Init ==
  /\ disk \in {d \in [Files -> {Absent} \cup StartTexts] :
                 \A f \in Files \ {F_a_types, F_b_user} : d[f] = Absent}
  /\ config \in [contractsDir : {S_a}, externalDirs : {<<S_b>>},
                 targetUrl : BOOLEAN, hotReload : BOOLEAN, cache : BOOLEAN]
  /\ cache = <<>>
  /\ enabled = TRUE
  /\ present = DOMAIN Listing /\ cli = NoCli
  /\ now = 0
  /\ events = <<>>
  /\ req = Idle
  /\ resp = NoResponse
  /\ last = NoLast
  /\ dirs = <<>> /\ built = NoBuild /\ got = NoCall

\* what the answer just given leaves in `last`: a singular mock answer is
\* remembered, any other answer ends the sequence of singular answers
remember(answer) ==
  IF answer.kind = "mock" /\ ~answer.isArray
  THEN [valid |-> TRUE, typeName |-> answer.typeName, filePath |-> answer.filePath,
        schema |-> answer.body, invalidated |-> FALSE]
  ELSE NoLast

\* a request arrives and passes statusOverrideMiddleware
Receive(url, mockStatus) ==
  /\ req.pc = "idle"
  /\ req' = [pc |-> IF config.targetUrl THEN "gate" ELSE "handler",
             url |-> url, forcedStatus |-> statusOverride(mockStatus),
             mapping |-> NoMapping]
  /\ resp' = NoResponse
  /\ UNCHANGED <<disk, dirs, built, cache, enabled, now, got, config, events, last, present, cli>>

\* server.ts: GET /health answers with schemaCache.getStats() and the config
Health ==
  /\ req.pc = "idle"
  /\ resp' = [status |-> 200, kind |-> "health", cache |-> getStats,
              config |-> config]
  /\ UNCHANGED <<disk, dirs, built, cache, enabled, now, got, config, events, req, last, present, cli>>

\* the gate handing every request to the mock route
ProxyGate_alwaysMock ==
  /\ req.pc = "gate"
  /\ req' = [req EXCEPT !.pc = "handler"]
  /\ UNCHANGED <<disk, dirs, built, cache, enabled, now, got, config, events, resp, last, present, cli>>

\* core/proxy.ts: the middleware createProxyFallback returns
\* (an exception of findTypeForUrl goes to express, which answers 500)
ProxyGate ==
  /\ req.pc = "gate"
  /\ LET mapping == findTypeForUrl(req.url, allDirs)
     IN  IF mapping = Throws
         THEN /\ req' = Idle
              /\ resp' = [status |-> 500, kind |-> "express_error"]
              /\ last' = remember(resp')
         ELSE /\ req' = [req EXCEPT !.pc = IF mapping.found THEN "handler"
                                          ELSE "forwarding"]
              /\ UNCHANGED <<resp, last>>
  /\ UNCHANGED <<disk, dirs, built, cache, enabled, now, got, config, events, present, cli>>

\* the upstream answers the forwarded request
ProxyRes ==
  /\ req.pc = "forwarding"
  /\ req' = Idle
  /\ resp' = [status |-> 200, kind |-> "upstream"]
  /\ last' = remember(resp')
  /\ UNCHANGED <<disk, dirs, built, cache, enabled, now, got, config, events, present, cli>>

\* the forwarding attempt fails: onError
ProxyError ==
  /\ req.pc = "forwarding"
  /\ req' = Idle
  /\ resp' = IF resInstanceofResponse
             THEN [status |-> 502, kind |-> "proxy_error"]
             ELSE [status |-> 0, kind |-> "proxy_error_unanswered"]
  /\ last' = remember(resp')
  /\ UNCHANGED <<disk, dirs, built, cache, enabled, now, got, config, events, present, cli>>

\* the not-found answer with status 404 whatever the request forces
typeNotFound_always404(forcedStatus) ==
  [status |-> 404, kind |-> "type_not_found", error |-> "Type not found"]

\* the not-found answer taking 500 for its default status
typeNotFound_as500(forcedStatus) ==
  [status |-> orElse(forcedStatus, 500), kind |-> "type_not_found",
   error |-> "Type not found"]

\* core/router.ts dynamicRouteHandler: the answer when findTypeForUrl
\* returns null
typeNotFound(forcedStatus) ==
  [status |-> orElse(forcedStatus, 404), kind |-> "type_not_found",
   error |-> "Type not found"]

\* the catch block logging the error and sending nothing
mockGenerationFailed_logsOnly(forcedStatus, message) == NoResponse

\* core/router.ts dynamicRouteHandler, the catch block: the answer for the
\* error caught, with its message
mockGenerationFailed(forcedStatus, message) ==
  [status |-> orElse(forcedStatus, 500), kind |-> "generation_failed",
   error |-> "Mock generation failed", message |-> message]

\* the forced error only for a status above 400
isForcedError_above400(forcedStatus) == forcedStatus # 0 /\ forcedStatus > 400

\* core/router.ts dynamicRouteHandler: `forcedStatus && forcedStatus >= 400`
isForcedError(forcedStatus) == forcedStatus # 0 /\ forcedStatus >= 400

\* the handler dropping the entry it answers from
HandlerLookup_evictsOnHit ==
  /\ req.pc = "handler"
  /\ LET mapping == findTypeForUrl(req.url, allDirs)
         forcedStatus == req.forcedStatus
         cached == IF shouldCache(mapping) THEN cacheGet(mapping.typeName, mapping.filePath)
                   ELSE Undefined
     IN  IF mapping = Throws
         THEN /\ resp' = mockGenerationFailed(forcedStatus, <<"EACCES: permission denied">>)
              /\ req' = Idle
              /\ last' = remember(resp')
         ELSE IF ~mapping.found
         THEN /\ resp' = typeNotFound(forcedStatus)
              /\ req' = Idle
              /\ last' = remember(resp')
         ELSE IF isForcedError(forcedStatus)
         THEN /\ resp' = [status |-> forcedStatus, kind |-> "forced_error"]
              /\ req' = Idle
              /\ last' = remember(resp')
         ELSE IF cached # Undefined
         THEN /\ resp' = [status |-> orElse(forcedStatus, 200), kind |-> "mock",
                          typeName |-> mapping.typeName, filePath |-> mapping.filePath,
                          isArray |-> mapping.isArray, body |-> cached.schema,
                          source |-> "cache"]
              /\ req' = Idle
              /\ last' = remember(resp')
         ELSE /\ req' = [req EXCEPT !.pc = "generate", !.mapping = mapping]
              /\ UNCHANGED <<resp, last>>
  /\ cache' = IF resp'.kind = "mock"
              THEN [k \in DOMAIN cache \ {generateKey(resp'.typeName, resp'.filePath)}
                      |-> cache[k]]
              ELSE cache
  /\ UNCHANGED <<disk, dirs, built, enabled, now, got, config, events, present, cli>>

\* core/router.ts dynamicRouteHandler, up to the generator call
HandlerLookup ==
  /\ req.pc = "handler"
  /\ LET mapping == findTypeForUrl(req.url, allDirs)
         forcedStatus == req.forcedStatus
         cached == IF shouldCache(mapping) THEN cacheGet(mapping.typeName, mapping.filePath)
                   ELSE Undefined
     IN  IF mapping = Throws
         THEN /\ resp' = mockGenerationFailed(forcedStatus, <<"EACCES: permission denied">>)
              /\ req' = Idle
              /\ last' = remember(resp')
         ELSE IF ~mapping.found
         THEN /\ resp' = typeNotFound(forcedStatus)
              /\ req' = Idle
              /\ last' = remember(resp')
         ELSE IF isForcedError(forcedStatus)
         THEN /\ resp' = [status |-> forcedStatus, kind |-> "forced_error"]
              /\ req' = Idle
              /\ last' = remember(resp')
         ELSE IF cached # Undefined
         THEN /\ resp' = [status |-> orElse(forcedStatus, 200), kind |-> "mock",
                          typeName |-> mapping.typeName, filePath |-> mapping.filePath,
                          isArray |-> mapping.isArray, body |-> cached.schema,
                          source |-> "cache"]
              /\ req' = Idle
              /\ last' = remember(resp')
         ELSE /\ req' = [req EXCEPT !.pc = "generate", !.mapping = mapping]
              /\ UNCHANGED <<resp, last>>
  /\ UNCHANGED <<disk, dirs, built, cache, enabled, now, got, config, events, present, cli>>

\* core/router.ts dynamicRouteHandler, from the generator call on
HandlerGenerate ==
  /\ req.pc = "generate"
  /\ LET mapping == req.mapping
         forcedStatus == req.forcedStatus
         outcomes == IF mapping.isArray
                     THEN generateMockArray(mapping.filePath, mapping.typeName)
                     ELSE generateMockFromInterface(mapping.filePath, mapping.typeName)
     IN  IF outcomes = {}
         THEN /\ resp' = mockGenerationFailed(
                           forcedStatus,
                           failedToGenerate(mapping.typeName,
                             generationCause(mapping.filePath, mapping.typeName)))
              /\ UNCHANGED cache
         ELSE \E mockData \in outcomes :
                /\ cache' = IF shouldCache(mapping)
                            THEN cacheSet(mapping.typeName, mapping.filePath, mockData)
                            ELSE cache
                /\ resp' = [status |-> orElse(forcedStatus, 200), kind |-> "mock",
                            typeName |-> mapping.typeName, filePath |-> mapping.filePath,
                            isArray |-> mapping.isArray, body |-> mockData,
                            source |-> "generator"]
  /\ req' = Idle
  /\ last' = remember(resp')
  /\ UNCHANGED <<disk, dirs, built, enabled, now, got, config, events, present, cli>>

\* chokidar's event for a change of the tree, when the file is watched
emit(type, filePath) ==
  IF watched(filePath) THEN Append(events, [type |-> type, path |-> filePath]) ELSE events

\* someone writes a contract file (creates it or changes its text)
WriteFile(filePath, text) ==
  /\ disk[filePath] # text
  /\ Len(events) < MaxQueue
  /\ disk' = [disk EXCEPT ![filePath] = text]
  /\ events' = emit(IF disk[filePath].exists THEN "change" ELSE "add", filePath)
  /\ resp' = NoResponse
  /\ UNCHANGED <<dirs, built, cache, enabled, now, got, config, req, last, present, cli>>

\* someone removes a contract file
RemoveFile(filePath) ==
  /\ disk[filePath].exists
  /\ Len(events) < MaxQueue
  /\ disk' = [disk EXCEPT ![filePath] = Absent]
  /\ events' = emit("unlink", filePath)
  /\ resp' = NoResponse
  /\ UNCHANGED <<dirs, built, cache, enabled, now, got, config, req, last, present, cli>>

\* utils/fileWatcher.ts: the events whose callback calls invalidateFile
invalidatingEvents_changeOnly == {"change"}

invalidatingEvents == {"change", "unlink"}

\* the callback running in the middle of a request's handler
WatchEvent_preempting ==
  /\ events # <<>>
  /\ LET event == Head(events)
     IN  /\ cache' = IF event.type \in invalidatingEvents
                     THEN cacheInvalidateFile(event.path) ELSE cache
         /\ last' = IF /\ event.type \in {"change", "unlink"}
                       /\ last.valid /\ last.filePath = event.path
                    THEN [last EXCEPT !.invalidated = TRUE]
                    ELSE last
  /\ events' = Tail(events)
  /\ resp' = IF req.pc \in {"idle", "forwarding"} THEN NoResponse ELSE resp
  /\ UNCHANGED <<disk, dirs, built, enabled, now, got, config, req, present, cli>>

\* utils/fileWatcher.ts: the watcher's callback for the oldest event.  The
\* gate, the handler and the generator run in one turn of the event loop, so
\* a callback runs only while no request is between them.
WatchEvent ==
  /\ events # <<>>
  /\ req.pc \in {"idle", "forwarding"}
  /\ LET event == Head(events)
     IN  /\ cache' = IF event.type \in invalidatingEvents
                     THEN cacheInvalidateFile(event.path) ELSE cache
         /\ last' = IF /\ event.type \in {"change", "unlink"}
                       /\ last.valid /\ last.filePath = event.path
                    THEN [last EXCEPT !.invalidated = TRUE]
                    ELSE last
  /\ events' = Tail(events)
  /\ resp' = NoResponse
  /\ UNCHANGED <<disk, dirs, built, enabled, now, got, config, req, present, cli>>

\* the 'error' callback emptying the cache
WatchError_clears ==
  /\ config.hotReload
  /\ req.pc \in {"idle", "forwarding"}
  /\ cache' = cacheClear
  /\ resp' = [status |-> 0, kind |-> "watcher_error"]
  /\ UNCHANGED <<disk, dirs, built, enabled, now, got, config, events, req, last, present, cli>>

\* utils/fileWatcher.ts: chokidar reports an error and the 'error' callback
\* logs it; like every callback it runs between two turns of the event loop
WatchError ==
  /\ config.hotReload
  /\ req.pc \in {"idle", "forwarding"}
  /\ resp' = [status |-> 0, kind |-> "watcher_error"]
  /\ UNCHANGED <<disk, dirs, built, cache, enabled, now, got, config, events, req, last, present, cli>>

\* index.ts: the operator runs `ts-mock-proxy clear-cache`.  The command is a
\* process of its own: the schemaCache it imports is that process's module
\* instance, created empty by `new SchemaCache()`, and clear() empties that
\* one (`size` is the count clear logs).  Nothing reaches the server process,
\* so it is enough to let the command run between two requests.
ClearCacheCommand ==
  /\ req.pc = "idle"
  /\ resp' = [status |-> 0, kind |-> "cli_clear_cache", size |-> 0]
  /\ UNCHANGED <<disk, dirs, built, cache, enabled, now, got, config, events, req, last, present, cli>>

Next ==
  \/ \E url \in Urls, mockStatus \in Headers : Receive(url, mockStatus)
  \/ Health
  \/ ClearCacheCommand
  \/ ProxyGate
  \/ ProxyRes
  \/ ProxyError
  \/ HandlerLookup
  \/ HandlerGenerate
  \/ \E f \in EditFiles, t \in EditTexts : WriteFile(f, t)
  \/ \E f \in EditFiles : RemoveFile(f)
  \/ WatchEvent
  \/ WatchError

Spec == Init /\ [][Next]_vars

----------------------------------------------------------------------------
(* SpecBuilds: buildTypeMap called again and again while the files change *)

\* someone takes the read permission of a contract file away
Chmod(filePath) ==
  /\ disk[filePath].exists /\ disk[filePath] # Unreadable
  /\ disk' = [disk EXCEPT ![filePath] = Unreadable]
  /\ resp' = NoResponse
  /\ UNCHANGED <<dirs, built, cache, enabled, now, got, config, events, req, last, present, cli>>

InitBuilds ==
  /\ \E ta \in {Absent} \cup StartTexts, tb \in {Absent, Unreadable} \cup StartTexts :
       disk = [f \in Files |-> IF f = F_a_types THEN ta
                               ELSE IF f = F_b_user THEN tb ELSE Absent]
  /\ dirs \in DirLists
  /\ built = NoBuild
  /\ cache = <<>> /\ enabled = TRUE /\ now = 0 /\ got = NoCall
  /\ present = DOMAIN Listing /\ cli = NoCli
  /\ config = NoConfig /\ events = <<>> /\ req = Idle
  /\ resp = NoResponse /\ last = NoLast

NextBuilds ==
  \/ Build
  \/ \E f \in EditFiles, t \in EditTexts : WriteFile(f, t)
  \/ \E f \in EditFiles : RemoveFile(f)
  \/ \E f \in EditFiles : Chmod(f)
  \/ CacheSet(S_User, F_a_types, Schema(S_User, 0, 1))

SpecBuilds == InitBuilds /\ [][NextBuilds]_vars

----------------------------------------------------------------------------
(* SpecLookup: one call of findTypeForUrl, directory by directory, with the
   file edits, watcher callbacks and requests that can come in meanwhile *)

\* the handler enters findTypeForUrl: parseUrlToType, then buildTypeMap starts
\* with `new Map()`.  fsAt is the disk at that moment; mixed becomes true when
\* a directory is read from a disk that is no longer that one.
FindEnter ==
  /\ req.pc = "handler"
  /\ built.op # "building"
  /\ built' = [op |-> "building", url |-> req.url, typeMap |-> <<>>, scanned |-> 0,
               fsAt |-> disk, mixed |-> FALSE]
  /\ UNCHANGED <<disk, dirs, cache, enabled, now, got, config, events, req, resp, last, present, cli>>

\* one turn of buildTypeMap's loop over the directories
FindScanDirectory ==
  /\ built.op = "building"
  /\ built.scanned < Len(allDirs)
  /\ built' = [built EXCEPT
                 !.typeMap = addFiles(@, findTypeScriptFiles(allDirs[built.scanned + 1])),
                 !.scanned = @ + 1,
                 !.mixed = @ \/ disk # built.fsAt]
  /\ UNCHANGED <<disk, dirs, cache, enabled, now, got, config, events, req, resp, last, present, cli>>

\* the mapping findTypeForUrl returns for the Map it was given by buildTypeMap
mappingIn(typeMap, url) ==
  LET parsed == parseUrlToType(url)
  IN  IF parsed.typeName \notin DOMAIN typeMap THEN NoMapping
      ELSE [found |-> TRUE, typeName |-> parsed.typeName,
            isArray |-> parsed.isArray, filePath |-> typeMap[parsed.typeName]]

\* the lookup reading the Map before the loop over the directories is over
FindReturn_early ==
  /\ built.op = "building"
  /\ built' = [op |-> "findTypeForUrl", url |-> built.url,
               mapping |-> mappingIn(built.typeMap, built.url),
               typeMap |-> built.typeMap, scanned |-> built.scanned]
  /\ req' = Idle
  /\ UNCHANGED <<disk, dirs, cache, enabled, now, got, config, events, resp, last, present, cli>>

\* buildTypeMap returns after the last directory and findTypeForUrl reads the
\* Map: typeMap.get(typeName)
FindReturn ==
  /\ built.op = "building"
  /\ built.scanned = Len(allDirs)
  /\ built' = [op |-> "findTypeForUrl", url |-> built.url,
               mapping |-> mappingIn(built.typeMap, built.url),
               typeMap |-> built.typeMap, scanned |-> built.scanned]
  /\ req' = Idle
  /\ UNCHANGED <<disk, dirs, cache, enabled, now, got, config, events, resp, last, present, cli>>

InitLookup ==
  /\ disk \in {d \in [Files -> {Absent} \cup StartTexts] :
                 \A f \in Files \ {F_a_types, F_b_user} : d[f] = Absent}
  /\ config = [contractsDir |-> S_a, externalDirs |-> <<S_b>>, targetUrl |-> FALSE,
               hotReload |-> TRUE, cache |-> TRUE]
  /\ cache = <<>> /\ enabled = TRUE /\ now = 0 /\ events = <<>>
  /\ present = DOMAIN Listing /\ cli = NoCli
  /\ req = Idle /\ resp = NoResponse /\ last = NoLast
  /\ dirs = <<>> /\ built = NoBuild /\ got = NoCall

\* The build and the lookup are synchronous code of one handler, so a
\* watcher callback and the next request wait for the handler to return
\* (both are enabled only when no request is in the handler); the files can
\* be written by anyone at any moment.
NextLookup ==
  \/ \E url \in Urls : Receive(url, NoHeader)
  \/ FindEnter
  \/ FindScanDirectory
  \/ FindReturn
  \/ \E f \in EditFiles, t \in EditTexts : WriteFile(f, t)
  \/ \E f \in EditFiles : RemoveFile(f)
  \/ WatchEvent

SpecLookup == InitLookup /\ [][NextLookup]_vars

----------------------------------------------------------------------------
(* SpecStartup: the command line's default action, from the options to
   startServer or to the exit *)

\* --dir and --external-dir as given (no --external-dir: undefined, here <<>>)
\* and the directories there are when the command is launched
StartOptions ==
  [dir : {S_a, S_c},
   externalDir : {<<>>, <<S_b>>, <<S_c>>, <<S_b, S_c>>, <<S_c, S_b>>, <<S_a, S_b>>}]
StartDirs == SUBSET {S_a, S_b, S_c}

InitStartup ==
  /\ present \in StartDirs
  /\ \E options \in StartOptions :
       cli = [pc |-> "contractsDir", options |-> options, i |-> 1, exitCode |-> 0,
              launchedWith |-> present]
  /\ config = NoConfig
  /\ disk = EmptyDisk /\ dirs = <<>> /\ built = NoBuild
  /\ cache = <<>> /\ enabled = TRUE /\ now = 0 /\ got = NoCall
  /\ events = <<>> /\ req = Idle /\ resp = NoResponse /\ last = NoLast

\* index.ts: "Verify that the directory exists"; a missing contracts directory
\* is created with fs.mkdirSync(contractsDir, {recursive: true})
CheckContractsDir ==
  /\ cli.pc = "contractsDir"
  /\ present' = IF ~existsSync(cli.options.dir)
                THEN present \cup {cli.options.dir} ELSE present
  /\ cli' = [cli EXCEPT !.pc = "externalDirs"]
  /\ UNCHANGED <<disk, dirs, built, cache, enabled, now, got, events, req, resp, last, config>>

\* the loop over the external directories logging a missing one and going on
CheckExternalDir_warnsOnly ==
  /\ cli.pc = "externalDirs"
  /\ cli' = IF cli.i > Len(cli.options.externalDir)
            THEN [cli EXCEPT !.pc = "startServer"]
            ELSE [cli EXCEPT !.i = @ + 1]
  /\ UNCHANGED <<disk, dirs, built, cache, enabled, now, got, events, req, resp, last, config, present>>

\* index.ts: "Verify that external directories exist", one turn of the loop:
\* process.exit(1) for a missing directory
CheckExternalDir ==
  /\ cli.pc = "externalDirs"
  /\ cli' = IF cli.i > Len(cli.options.externalDir)
            THEN [cli EXCEPT !.pc = "startServer"]
            ELSE IF ~existsSync(cli.options.externalDir[cli.i])
            THEN [cli EXCEPT !.pc = "exited", !.exitCode = 1]
            ELSE [cli EXCEPT !.i = @ + 1]
  /\ UNCHANGED <<disk, dirs, built, cache, enabled, now, got, events, req, resp, last, config, present>>

\* index.ts: "Build the configuration" and startServer(config)
StartServer ==
  /\ cli.pc = "startServer"
  /\ config' = [contractsDir |-> cli.options.dir, externalDirs |-> cli.options.externalDir,
                targetUrl |-> FALSE, hotReload |-> TRUE, cache |-> TRUE]
  /\ cli' = [cli EXCEPT !.pc = "serving"]
  /\ UNCHANGED <<disk, dirs, built, cache, enabled, now, got, events, req, resp, last, present>>

NextStartup == CheckContractsDir \/ CheckExternalDir \/ StartServer

SpecStartup == InitStartup /\ [][NextStartup]_vars

----------------------------------------------------------------------------
(* core/swagger.ts: the declared type of a field and its schema;
   SpecShapes: typeToOpenAPISchema over drawn declarations *)

T_string == <<"s","t","r","i","n","g">>
T_number == <<"n","u","m","b","e","r">>
T_boolean == <<"b","o","o","l","e","a","n">>
T_Date == <<"D","a","t","e">>
T_any == <<"a","n","y">>
T_unknown == <<"u","n","k","n","o","w","n">>
T_brackets == <<"[","]">>
T_orNull == <<"|","n","u","l","l">>
T_orUndefined == <<"|","u","n","d","e","f","i","n","e","d">>

\* String.prototype.replace(/\s+/g, '')
removeWhitespace(s) == SelectSeq(s, LAMBDA c : c \notin {" ", "\t", "\n"})

\* String.prototype.trim
RECURSIVE trimStart(_)
trimStart(s) ==
  IF s # <<>> /\ Head(s) \in {" ", "\t", "\n"} THEN trimStart(Tail(s)) ELSE s

RECURSIVE trimEnd(_)
trimEnd(s) ==
  IF s # <<>> /\ s[Len(s)] \in {" ", "\t", "\n"}
  THEN trimEnd(SubSeq(s, 1, Len(s) - 1)) ELSE s

trim(s) == trimEnd(trimStart(s))

\* s has sub at position i
matchesAt(s, i, sub) ==
  /\ i + Len(sub) - 1 <= Len(s)
  /\ SubSeq(s, i, i + Len(sub) - 1) = sub

\* String.prototype.includes
includes(s, sub) == \E i \in 1..Len(s) : matchesAt(s, i, sub)

\* String.prototype.replace(/\|null|\|undefined/g, ''), from position i on
RECURSIVE removeAbsentFrom(_, _)
removeAbsentFrom(s, i) ==
  IF i > Len(s) THEN <<>>
  ELSE IF matchesAt(s, i, T_orNull) THEN removeAbsentFrom(s, i + Len(T_orNull))
  ELSE IF matchesAt(s, i, T_orUndefined) THEN removeAbsentFrom(s, i + Len(T_orUndefined))
  ELSE <<s[i]>> \o removeAbsentFrom(s, i + 1)

\* typeToOpenAPISchema(tsType, _isOptional): the OpenAPI schema of a declared
\* type (the second argument is not read)
RECURSIVE typeToOpenAPISchema(_, _)
typeToOpenAPISchema(tsType, isOptional) ==
  LET baseType == removeWhitespace(tsType)
  IN  IF endsWith(baseType, T_brackets)
      THEN [type |-> "array",
            items |-> typeToOpenAPISchema(SubSeq(baseType, 1, Len(baseType) - 2), FALSE)]
      ELSE IF includes(baseType, T_orNull) \/ includes(baseType, T_orUndefined)
      THEN typeToOpenAPISchema(removeAbsentFrom(baseType, 1), TRUE)
      ELSE IF baseType = T_string THEN [type |-> "string"]
      ELSE IF baseType = T_number THEN [type |-> "number"]
      ELSE IF baseType = T_boolean THEN [type |-> "boolean"]
      ELSE IF baseType = T_Date THEN [type |-> "string", format |-> "date-time"]
      ELSE IF baseType \in {T_any, T_unknown} THEN [type |-> "object"]
      ELSE IF includes(baseType, <<"{">>) THEN [type |-> "object"]
      ELSE [type |-> "string"]

\* the texts of the declared types a field is given.  The inline composite is
\* what extractInterfaceProperties hands on for `{ id: number; }`: its
\* property pattern cuts the type at the first semicolon.
BaseTexts ==
  [string |-> T_string, number |-> T_number, boolean |-> T_boolean, Date |-> T_Date,
   any |-> T_any, unknown |-> T_unknown,
   reference |-> <<"U","s","e","r">>,
   composite |-> <<"{"," ","i","d",":"," ","n","u","m","b","e","r">>]
BaseKinds == {"string", "number", "boolean", "Date", "any", "unknown", "reference",
              "composite"}

\* Array depth of a drawn declaration.
MaxDims == 2

\* how a declaration names the absent alternative, if it has one
UnionForms == {"plain", "orNull", "nullOr", "orUndefined", "undefinedOr",
               "orNullOrUndefined", "orNullDense"}

\* a declaration: a base type, its array depth, and the union it stands in
Declarations ==
  {d \in [base : BaseKinds, dims : 0..MaxDims, union : UnionForms] :
     d.base = "composite" => (d.dims = 0 /\ d.union = "plain")}

RECURSIVE arrayOf(_, _)
arrayOf(text, dims) == IF dims = 0 THEN text ELSE arrayOf(text, dims - 1) \o T_brackets

\* the text of a declaration as it stands behind the colon, spaces included
declaredText(d) ==
  LET X == arrayOf(BaseTexts[d.base], d.dims)
  IN  CASE d.union = "plain" -> <<" ">> \o X
        [] d.union = "orNull" -> X \o <<" ","|"," ","n","u","l","l">>
        [] d.union = "nullOr" -> <<"n","u","l","l"," ","|"," ">> \o X
        [] d.union = "orUndefined" -> X \o <<" ","|"," ","u","n","d","e","f","i","n","e","d">>
        [] d.union = "undefinedOr" -> <<"u","n","d","e","f","i","n","e","d"," ","|"," ">> \o X
        [] d.union = "orNullOrUndefined" -> X \o <<" ","|"," ","n","u","l","l"," ","|"," ","u","n","d","e","f","i","n","e","d">>
        [] d.union = "orNullDense" -> X \o T_orNull

InitShapes ==
  /\ \E d \in Declarations :
       built = [op |-> "none", declaration |-> d, propType |-> declaredText(d)]
  /\ disk = EmptyDisk /\ dirs = <<>>
  /\ cache = <<>> /\ enabled = TRUE /\ now = 0 /\ got = NoCall
  /\ present = DOMAIN Listing /\ cli = NoCli
  /\ config = NoConfig /\ events = <<>> /\ req = Idle
  /\ resp = NoResponse /\ last = NoLast

\* extractInterfaceProperties, for one property: the type is trimmed and
\* handed to typeToOpenAPISchema
ExtractProperty ==
  /\ built.op = "none"
  /\ built' = [op |-> "typeToOpenAPISchema", declaration |-> built.declaration,
               propType |-> built.propType,
               schema |-> typeToOpenAPISchema(trim(built.propType), FALSE)]
  /\ UNCHANGED <<disk, dirs, cache, enabled, now, got, config, events, req, resp, last, present, cli>>

NextShapes == ExtractProperty

SpecShapes == InitShapes /\ [][NextShapes]_vars

----------------------------------------------------------------------------
(* SpecArrays: generateMockArray, one turn of its loop at a time *)

\* Largest options.arrayLength a caller gives.
MaxLen == 4

\* the options of a call: without arrayLength, or with one
ArrayOptions ==
  {[given |-> FALSE]} \cup {[given |-> TRUE, arrayLength |-> n] : n \in 0..MaxLen}

InitArrays ==
  /\ \E text \in {Absent} \cup StartTexts :
       disk = [f \in Files |-> IF f = F_a_types THEN text ELSE Absent]
  /\ \E options \in ArrayOptions : built = [op |-> "none", options |-> options]
  /\ dirs = <<>>
  /\ cache = <<>> /\ enabled = TRUE /\ now = 0 /\ got = NoCall
  /\ present = DOMAIN Listing /\ cli = NoCli
  /\ config = NoConfig /\ events = <<>> /\ req = Idle
  /\ resp = NoResponse /\ last = NoLast

\* generateMockArray(filePath, 'User', options) is entered:
\* `options.arrayLength ?? getRandomArrayLength()` and an empty items array
EnterGenerateMockArray ==
  /\ built.op = "none"
  /\ \E length \in IF built.options.given THEN {built.options.arrayLength}
                    ELSE getRandomArrayLength :
       built' = [op |-> "generating", options |-> built.options, length |-> length,
                 items |-> <<>>, calls |-> 0]
  /\ UNCHANGED <<disk, dirs, cache, enabled, now, got, config, events, req, resp, last, present, cli>>

\* one turn of the loop: items.push(generateMockFromInterface(...)); what the
\* generator throws leaves generateMockArray
PushItem ==
  /\ built.op = "generating"
  /\ Len(built.items) < built.length
  /\ LET outcomes == generateMockFromInterface(F_a_types, S_User)
     IN  IF outcomes = {}
         THEN built' = [op |-> "generateMockArray", threw |-> TRUE,
                        options |-> built.options, items |-> <<>>,
                        calls |-> built.calls + 1]
         ELSE \E mockData \in outcomes :
                built' = [built EXCEPT !.items = Append(@, mockData),
                                       !.calls = @ + 1]
  /\ UNCHANGED <<disk, dirs, cache, enabled, now, got, config, events, req, resp, last, present, cli>>

\* the loop is over (`i < length` is false): return items
ReturnItems ==
  /\ built.op = "generating"
  /\ ~(Len(built.items) < built.length)
  /\ built' = [op |-> "generateMockArray", threw |-> FALSE,
               options |-> built.options, items |-> built.items,
               calls |-> built.calls]
  /\ UNCHANGED <<disk, dirs, cache, enabled, now, got, config, events, req, resp, last, present, cli>>

NextArrays == EnterGenerateMockArray \/ PushItem \/ ReturnItems

SpecArrays == InitArrays /\ [][NextArrays]_vars

----------------------------------------------------------------------------
(* SpecWatched: the server with hot-reload and a contract file whose name
   starts with a dot, /a/.draft.ts, next to /a/types.ts *)

WatchedEditFiles == {F_a_types, F_a_draft}

\* Events of one burst: chokidar reports a write that an editor makes in
\* several steps more than once.
MaxBurst == 2

\* the event emitted last is emitted once more
RepeatEvent ==
  /\ events # <<>>
  /\ Len(events) < MaxBurst
  /\ events' = Append(events, events[Len(events)])
  /\ UNCHANGED <<disk, dirs, built, cache, enabled, now, got, config, req, resp, last,
                 present, cli>>

InitWatched ==
  /\ disk \in {d \in [Files -> {Absent} \cup StartTexts] :
                 \A f \in Files \ WatchedEditFiles : d[f] = Absent}
  /\ config = [contractsDir |-> S_a, externalDirs |-> <<S_b>>, targetUrl |-> FALSE,
               hotReload |-> TRUE, cache |-> TRUE]
  /\ cache = <<>> /\ enabled = TRUE /\ now = 0 /\ events = <<>>
  /\ present = DOMAIN Listing /\ cli = NoCli
  /\ req = Idle /\ resp = NoResponse /\ last = NoLast
  /\ dirs = <<>> /\ built = NoBuild /\ got = NoCall

NextWatched ==
  \/ Receive(U_user, NoHeader)
  \/ HandlerLookup
  \/ HandlerGenerate
  \/ \E f \in WatchedEditFiles, t \in EditTexts : WriteFile(f, t)
  \/ \E f \in WatchedEditFiles : RemoveFile(f)
  \/ RepeatEvent
  \/ WatchEvent

SpecWatched == InitWatched /\ [][NextWatched]_vars

----------------------------------------------------------------------------
(* SpecStatus: the dynamic route handler under x-mock-status headers *)

\* the values of the x-mock-status header: none, and the statuses around the
\* ends of the valid range and of the forced-error range
StatusHeaders == {NoHeader, 99, 100, 201, 399, 400, 599, 600}

\* the URLs requested: a single User, a list of User, a type no file defines
StatusUrls == {U_user, U_users, U_orders}

InitStatus ==
  /\ disk \in {d \in [Files -> {Absent} \cup StartTexts] :
                 \A f \in Files \ {F_a_types} : d[f] = Absent}
  /\ config = [contractsDir |-> S_a, externalDirs |-> <<S_b>>, targetUrl |-> FALSE,
               hotReload |-> FALSE, cache |-> TRUE]
  /\ cache = <<>> /\ enabled = TRUE /\ now = 0 /\ events = <<>>
  /\ present = DOMAIN Listing /\ cli = NoCli
  /\ req = Idle /\ resp = NoResponse /\ last = NoLast
  /\ dirs = <<>> /\ built = NoBuild /\ got = NoCall

NextStatus ==
  \/ \E url \in StatusUrls, mockStatus \in StatusHeaders : Receive(url, mockStatus)
  \/ HandlerLookup
  \/ HandlerGenerate
  \/ \E t \in EditTexts : WriteFile(F_a_types, t)
  \/ RemoveFile(F_a_types)

SpecStatus == InitStatus /\ [][NextStatus]_vars

----------------------------------------------------------------------------
(* SpecPaths: the paths generateOpenAPISpec lists, given to the resolver *)

\* npm pluralize: pluralize(word), the plural form
plural(word) ==
  LET token == toLowerCase(word)
  IN  IF token \in DOMAIN IrregularPlurals THEN word
      ELSE IF token \in DOMAIN IrregularSingles THEN IrregularSingles[token]
      ELSE pluralRule(word)

\* core/swagger.ts interfaceNameToPath, .replace(/([A-Z])/g, '-$1')
RECURSIVE dashBeforeCapitals(_)
dashBeforeCapitals(str) ==
  IF str = <<>> THEN <<>>
  ELSE (IF \E i \in 1..26 : Upper[i] = Head(str) THEN <<"-", Head(str)>>
        ELSE <<Head(str)>>) \o dashBeforeCapitals(Tail(str))

\* .replace(/^-/, '')
removeLeadingDash(str) ==
  IF str # <<>> /\ Head(str) = "-" THEN Tail(str) ELSE str

\* core/swagger.ts interfaceNameToPath
interfaceNameToPath(interfaceName) ==
  LET kebab == removeLeadingDash(toLowerCase(dashBeforeCapitals(interfaceName)))
  IN  <<"/">> \o plural(kebab)

\* core/swagger.ts generateOpenAPISpec: `/${interfaceName.toLowerCase()}`
singularPath(interfaceName) == <<"/">> \o toLowerCase(interfaceName)

\* the words interface names are made of: plain nouns, a plural, the
\* uncountable and irregular nouns of the pluralize model
S_Item == <<"I","t","e","m">>
S_Profile == <<"P","r","o","f","i","l","e">>
S_Users == <<"U","s","e","r","s">>
S_News == <<"N","e","w","s">>
S_Person == <<"P","e","r","s","o","n">>
S_Child == <<"C","h","i","l","d">>
FirstWords == {S_User, S_Post, S_Item, S_Profile, S_Users, S_News, S_Person, S_Child}
SecondWords == {<<>>, S_User, S_Post, S_Item, S_Profile, S_Users}
InterfaceNames == {a \o b : a \in FirstWords, b \in SecondWords}

InitPaths ==
  /\ built \in [op : {"none"}, interfaceName : InterfaceNames]
  /\ disk = EmptyDisk /\ dirs = <<>>
  /\ cache = <<>> /\ enabled = TRUE /\ now = 0 /\ got = NoCall
  /\ present = DOMAIN Listing /\ cli = NoCli
  /\ config = NoConfig /\ events = <<>> /\ req = Idle
  /\ resp = NoResponse /\ last = NoLast

\* the array path listed for the interface is requested, the catalog holding
\* the interface
ResolveArrayPath ==
  /\ built' = [op |-> "arrayPath", interfaceName |-> built.interfaceName,
               path |-> interfaceNameToPath(built.interfaceName),
               mapping |-> mappingIn(built.interfaceName :> F_a_types,
                                     interfaceNameToPath(built.interfaceName))]
  /\ UNCHANGED <<disk, dirs, cache, enabled, now, got, config, events, req, resp, last, present, cli>>

\* the single-item path listed for the interface is requested
ResolveSingularPath ==
  /\ built' = [op |-> "singularPath", interfaceName |-> built.interfaceName,
               path |-> singularPath(built.interfaceName),
               mapping |-> mappingIn(built.interfaceName :> F_a_types,
                                     singularPath(built.interfaceName))]
  /\ UNCHANGED <<disk, dirs, cache, enabled, now, got, config, events, req, resp, last, present, cli>>

NextPaths == ResolveArrayPath \/ ResolveSingularPath

SpecPaths == InitPaths /\ [][NextPaths]_vars

----------------------------------------------------------------------------
(* Properties *)

Range(seq) == {seq[i] : i \in 1..Len(seq)}

\* directory dir defines interface T: a file its scan yields declares T
Defines(dir, T) == \E f \in Range(findTypeScriptFiles(dir)) : T \in disk[f].decls

\* C1: buildTypeMap maps each interface name to a file of the lowest-index
\* directory that defines it, and maps no name that no directory defines
C1_FirstDirectoryWins ==
  built.op = "buildTypeMap" =>
    /\ DOMAIN built.typeMap \subseteq Names
    /\ \A T \in Names :
         LET defining == {i \in 1..Len(dirs) : Defines(dirs[i], T)}
         IN  IF defining = {} THEN T \notin DOMAIN built.typeMap
             ELSE /\ T \in DOMAIN built.typeMap
                  /\ LET first == CHOOSE i \in defining : \A j \in defining : i <= j
                     IN  /\ built.typeMap[T] \in Range(findTypeScriptFiles(dirs[first]))
                         /\ T \in disk[built.typeMap[T]].decls

\* /a and /b both define User, the list is [/b, /a], and the map holds /b's file
C1_Witness ==
  /\ built.op = "buildTypeMap"
  /\ dirs = <<S_b, S_a>>
  /\ Defines(S_a, S_User) /\ Defines(S_b, S_User)
  /\ built.typeMap[S_User] = F_b_user

\* the resolved type of a URL is in the catalog of the disk as it is
TypePresent(url) == parseUrlToType(url).typeName \in DOMAIN buildTypeMap(allDirs)

UpstreamAnswers == {"upstream", "proxy_error", "proxy_error_unanswered"}

\* C2: the decision table of the gate.  Without an upstream a request goes to
\* the mock route; with one, it goes to the mock route when its type is in the
\* catalog and is forwarded when it is not; a forwarded request never runs the
\* mock handler and a request on the mock route is never forwarded
C2_GateDecisionTable ==
  [][ /\ (req.pc = "idle" /\ req'.pc # "idle") =>
           req'.pc = IF config.targetUrl THEN "gate" ELSE "handler"
      /\ (req.pc = "gate" /\ req'.pc # "gate") =>
           req'.pc = IF TypePresent(req.url) THEN "handler" ELSE "forwarding"
      /\ req.pc = "forwarding" =>
           /\ req'.pc \in {"forwarding", "idle"}
           /\ req'.pc = "idle" => (resp'.kind \in UpstreamAnswers /\ cache' = cache)
      /\ req.pc \in {"handler", "generate"} =>
           /\ req'.pc \in {"handler", "generate", "idle"}
           /\ req'.pc = "idle" => resp'.kind \notin UpstreamAnswers
    ]_vars

\* an upstream is configured, the type is absent, and the request is forwarded
C2_Witness ==
  /\ config.targetUrl
  /\ req.pc = "forwarding"
  /\ ~TypePresent(req.url)

\* C3: a forwarded request whose forwarding attempt fails is answered 502
\* Proxy Error
C3_ForwardingFailureAnswered502 ==
  resp.kind \in {"proxy_error", "proxy_error_unanswered"} =>
    (resp.kind = "proxy_error" /\ resp.status = 502)

\* the step is the dynamic route handler writing its answer
HandlerAnswers == req.pc \in {"handler", "generate"} /\ req'.pc = "idle"

\* the answer written is a singular mock answer for the type and file of the
\* singular mock answer before it
SameSingularRoute ==
  /\ HandlerAnswers
  /\ last.valid
  /\ resp'.kind = "mock" /\ ~resp'.isArray
  /\ resp'.typeName = last.typeName /\ resp'.filePath = last.filePath

\* C4: with the cache on, the second of two consecutive singular mock answers
\* for the same type and file, with no change or unlink event for the file
\* delivered between them, is the first one's payload, read from the cache
C4_SecondAnswerFromCache ==
  [][ (config.cache /\ SameSingularRoute /\ ~last.invalidated) =>
        (resp'.body = last.schema /\ resp'.source = "cache") ]_vars

\* a singular answer read from the cache
C4_Witness ==
  /\ config.cache
  /\ resp.kind = "mock" /\ ~resp.isArray
  /\ resp.source = "cache"

\* C5: when a change or unlink event for the file was delivered between two
\* singular answers for the same type and file, the second is regenerated, and
\* the callback of such an event leaves no entry of that file in the cache
C5_RegeneratedAfterEvent ==
  [][ /\ (SameSingularRoute /\ last.invalidated) => resp'.source = "generator"
      /\ (events # <<>> /\ events' = Tail(events)
            /\ Head(events).type \in {"change", "unlink"}) =>
           \A k \in DOMAIN cache' : cache'[k].filePath # Head(events).path
    ]_vars

\* after the event, the next request for the same type and file missed the
\* cache and is at the generator call
C5_Witness ==
  /\ last.valid /\ last.invalidated
  /\ req.pc = "generate"
  /\ ~req.mapping.isArray
  /\ req.mapping.typeName = last.typeName
  /\ req.mapping.filePath = last.filePath

\* C6: invalidateFile(F) removes every entry whose file is F and leaves every
\* other entry as it was (key, payload and creation time); with no entry of F
\* the cache is unchanged
C6_InvalidateFileFrame ==
  [][ got'.op = "invalidateFile" =>
        LET F == got'.filePath
        IN  /\ \A k \in DOMAIN cache :
                 IF cache[k].filePath = F THEN k \notin DOMAIN cache'
                 ELSE k \in DOMAIN cache' /\ cache'[k] = cache[k]
            /\ DOMAIN cache' \subseteq DOMAIN cache
            /\ (\A k \in DOMAIN cache : cache[k].filePath # F) => cache' = cache
    ]_vars

\* invalidateFile removed the two entries of one file and an entry of the
\* other file is still there
C6_Witness ==
  /\ got.op = "invalidateFile"
  /\ got.count = 2
  /\ \E k \in DOMAIN cache : cache[k].filePath # got.filePath

\* C7: a request for an array route leaves the cache as it is and is never
\* answered from it; its mock answer is an array of 3 to 10 objects of the
\* resolved type
C7_ArrayRouteBypassesCache ==
  [][ (req.pc \in {"gate", "handler", "generate"} /\ parseUrlToType(req.url).isArray) =>
        /\ cache' = cache
        /\ (HandlerAnswers /\ resp'.kind = "mock") =>
             /\ resp'.isArray
             /\ resp'.source = "generator"
             /\ resp'.body.array
             /\ resp'.body.of = parseUrlToType(req.url).typeName
             /\ resp'.body.length \in 3..10
    ]_vars

\* an array answer given while the cache is on and holds an entry
C7_Witness ==
  /\ config.cache
  /\ resp.kind = "mock" /\ resp.isArray
  /\ cache # <<>>

\* C8: with the cache switched off the cache holds no entry in any state and
\* every singular mock answer is generated
C8_DisabledCacheStaysEmpty ==
  ~config.cache =>
    /\ cache = <<>>
    /\ \A n \in Names, f \in Files : cacheGet(n, f) = Undefined
    /\ resp.kind = "mock" => resp.source = "generator"

\* a singular answer, generated, with the cache off
C8_Witness ==
  /\ ~config.cache
  /\ resp.kind = "mock" /\ ~resp.isArray
  /\ resp.source = "generator"

\* C9: with the server configured with cache = false, stats() of the cache
\* the server uses reports enabled = false
C9_StatsReportDisabled ==
  (resp.kind = "health" /\ ~resp.config.cache) => ~resp.cache.enabled

\* the stored entry of a pair, read from the map itself
entryOf(map, interfaceName, filePath) ==
  IF generateKey(interfaceName, filePath) \in DOMAIN map
  THEN map[generateKey(interfaceName, filePath)]
  ELSE Undefined

\* C10: a set on one (typeName, sourceFile) pair changes what get returns for
\* no other pair, and get returns for the pair what was set
C10_KeyedByPair ==
  [][ got'.op = "set" =>
        \A n \in Names, f \in CacheFiles :
          IF n = got'.interfaceName /\ f = got'.filePath
          THEN enabled =>
                 /\ cacheGet(n, f)' # Undefined
                 /\ cacheGet(n, f)'.interfaceName = n
                 /\ cacheGet(n, f)'.filePath = f
          ELSE /\ cacheGet(n, f)' = cacheGet(n, f)
               /\ entryOf(cache', n, f) = entryOf(cache, n, f)
    ]_vars

\* the same interface name is stored for two files with different payloads
C10_Witness ==
  /\ got.op = "set"
  /\ cacheGet(S_User, F_a_types) # Undefined
  /\ cacheGet(S_User, F_b_user) # Undefined
  /\ cacheGet(S_User, F_a_types).schema # cacheGet(S_User, F_b_user).schema

\* the payload the map itself holds for a pair, if any
stored(map, interfaceName, filePath) ==
  IF entryOf(map, interfaceName, filePath) = Undefined THEN Undefined
  ELSE entryOf(map, interfaceName, filePath).schema

CachePairs == Names \X CacheFiles

\* C11: on an enabled cache, get(name, file) returns the payload of the most
\* recent set(name, file, .) not followed by invalidateFile(file) or clear(),
\* and nothing when there is none.  Stated on the payload held per pair: none
\* at the start; a set gives its pair the payload set and changes no other
\* pair; invalidateFile(file) empties the pairs of that file and changes no
\* other; clear empties all; get changes none and returns the pair's payload
C11_GetReturnsLatestSet ==
  /\ enabled => \A p \in CachePairs : stored(cache, p[1], p[2]) = Undefined
  /\ [][ enabled =>
          /\ got'.op = "set" =>
               \A q \in CachePairs, r \in 1..MaxRnd :
                 CacheSet(q[1], q[2], Schema(q[1], 0, r)) =>
                   \A p \in CachePairs :
                     stored(cache', p[1], p[2]) =
                       IF p = q THEN Schema(q[1], 0, r) ELSE stored(cache, p[1], p[2])
          /\ got'.op = "invalidateFile" =>
               \A f \in CacheFiles :
                 CacheInvalidateFile(f) =>
                   \A p \in CachePairs :
                     stored(cache', p[1], p[2]) =
                       IF p[2] = f THEN Undefined ELSE stored(cache, p[1], p[2])
          /\ got'.op = "clear" =>
               (CacheClear => \A p \in CachePairs : stored(cache', p[1], p[2]) = Undefined)
          /\ got'.op = "get" =>
               \A q \in CachePairs :
                 CacheGet(q[1], q[2]) =>
                   /\ got'.result = stored(cache, q[1], q[2])
                   /\ cache' = cache
          /\ Tick => cache' = cache
      ]_vars

\* get returns a payload set after the pair's entry was first created (the
\* clock moved on and the entry carries the later time), with another file's
\* entry beside it
C11_Witness ==
  /\ enabled
  /\ got.op = "get" /\ got.result # Undefined
  /\ \E k \in DOMAIN cache :
       /\ cache[k].schema = got.result
       /\ cache[k].lastUpdated > 0
       /\ \E j \in DOMAIN cache : cache[j].filePath # cache[k].filePath

\* C12: right after clear() the cache holds nothing: size() is 0 and get
\* returns nothing for every pair
C12_ClearRemovesEverything ==
  got.op = "clear" =>
    /\ cacheSize = 0
    /\ getStats.size = 0
    /\ \A p \in CachePairs : cacheGet(p[1], p[2]) = Undefined

\* clear() has just removed entries of both files
C12_Witness ==
  /\ got.op = "clear"
  /\ got.size >= 3
  /\ cacheSize = 0

\* C13: after the operator's clear-cache command the running server's cache
\* is empty (so that the next singular request regenerates its payload)
C13_OperatorClearResetsServerCache ==
  resp.kind = "cli_clear_cache" =>
    /\ cache = <<>>
    /\ \A n \in Names, f \in Files : cacheGet(n, f) = Undefined

\* the (typeName, sourceFile) pairs the map holds an entry for
storedPairs == {<<cache[k].interfaceName, cache[k].filePath>> : k \in DOMAIN cache}

\* C14: in every state of the cache, size() and getStats().size are the
\* number of distinct pairs stored, getStats().schemas has exactly one record
\* for each stored entry and no other, and each record's age is the current
\* time minus the entry's creation time and is not negative
C14_StatsMatchEntries ==
  /\ cacheSize = Cardinality(storedPairs)
  /\ getStats.size = Cardinality(storedPairs)
  /\ Cardinality(getStats.schemas) = Cardinality(DOMAIN cache)
  /\ \A k \in DOMAIN cache :
       /\ k = generateKey(cache[k].interfaceName, cache[k].filePath)
       /\ Cardinality({s \in getStats.schemas :
                         /\ s.interfaceName = cache[k].interfaceName
                         /\ s.filePath = cache[k].filePath}) = 1
  /\ \A s \in getStats.schemas :
       /\ <<s.interfaceName, s.filePath>> \in storedPairs
       /\ s.age = now - entryOf(cache, s.interfaceName, s.filePath).lastUpdated
       /\ s.age >= 0

\* the cache holds an entry created before the clock moved and one created
\* after, and the statistics show both ages
C14_Witness ==
  /\ cacheSize >= 2
  /\ \E s, t \in getStats.schemas : s.age > 0 /\ t.age = 0

\* the last non-empty slash-delimited segment of a path, by position: it ends
\* at the last character that is not a slash and starts after the slash
\* before that
lastNonEmptySegment(url) ==
  LET ends == {j \in 1..Len(url) : url[j] # "/"}
  IN  IF ends = {} THEN <<>>
      ELSE LET j == CHOOSE x \in ends : \A y \in ends : y <= x
               slashes == {i \in 1..j : url[i] = "/"}
               i == IF slashes = {} THEN 0
                    ELSE CHOOSE x \in slashes : \A y \in slashes : y <= x
           IN  SubSeq(url, i + 1, j)

\* what the claim has the words resolve to: the plurals users, people,
\* children, product-items, user-profiles, orders to their singular as arrays;
\* the words in singular form user, person, child, profile, user_profile and
\* equipment to themselves, not arrays
Resolutions ==
  { [segment |-> <<"u","s","e","r","s">>,
     typeName |-> <<"U","s","e","r">>, isArray |-> TRUE],
    [segment |-> <<"u","s","e","r">>,
     typeName |-> <<"U","s","e","r">>, isArray |-> FALSE],
    [segment |-> <<"p","e","o","p","l","e">>,
     typeName |-> <<"P","e","r","s","o","n">>, isArray |-> TRUE],
    [segment |-> <<"p","e","r","s","o","n">>,
     typeName |-> <<"P","e","r","s","o","n">>, isArray |-> FALSE],
    [segment |-> <<"c","h","i","l","d","r","e","n">>,
     typeName |-> <<"C","h","i","l","d">>, isArray |-> TRUE],
    [segment |-> <<"c","h","i","l","d">>,
     typeName |-> <<"C","h","i","l","d">>, isArray |-> FALSE],
    [segment |-> <<"p","r","o","d","u","c","t","-","i","t","e","m","s">>,
     typeName |-> <<"P","r","o","d","u","c","t","I","t","e","m">>, isArray |-> TRUE],
    [segment |-> <<"u","s","e","r","-","p","r","o","f","i","l","e","s">>,
     typeName |-> <<"U","s","e","r","P","r","o","f","i","l","e">>, isArray |-> TRUE],
    [segment |-> <<"p","r","o","f","i","l","e">>,
     typeName |-> <<"P","r","o","f","i","l","e">>, isArray |-> FALSE],
    [segment |-> <<"u","s","e","r","_","p","r","o","f","i","l","e">>,
     typeName |-> <<"U","s","e","r","P","r","o","f","i","l","e">>, isArray |-> FALSE],
    [segment |-> <<"o","r","d","e","r","s">>,
     typeName |-> <<"O","r","d","e","r">>, isArray |-> TRUE],
    [segment |-> S_equipment,
     typeName |-> <<"E","q","u","i","p","m","e","n","t">>, isArray |-> FALSE] }

\* C15: parseUrlToType resolves the last non-empty slash-delimited segment of
\* the path; a plural segment, regular or irregular, yields the singular type
\* name with isArray = TRUE and a singular segment yields its own type name
\* with isArray = FALSE
C15_ResolvesLastSegment ==
  built.op = "parseUrlToType" =>
    /\ built.result = urlSegmentToTypeName(lastNonEmptySegment(built.str))
    /\ \A w \in Resolutions :
         lastNonEmptySegment(built.str) = w.segment =>
           built.result = [typeName |-> w.typeName, isArray |-> w.isArray]

\* the parts of a string between runs of hyphens and underscores
RECURSIVE partsFrom(_, _)
partsFrom(str, cur) ==
  IF str = <<>> THEN <<cur>>
  ELSE IF Head(str) \in {"-", "_"} THEN <<cur>> \o partsFrom(Tail(str), <<>>)
  ELSE partsFrom(Tail(str), Append(cur, Head(str)))

RECURSIVE capitalizeAndJoin(_)
capitalizeAndJoin(parts) ==
  IF parts = <<>> THEN <<>>
  ELSE LET part == Head(parts)
       IN  (IF part = <<>> THEN <<>> ELSE <<toUpperCase(part[1])>> \o Tail(part))
             \o capitalizeAndJoin(Tail(parts))

IsPascalCase(str) ==
  /\ str # <<>>
  /\ \A i \in 1..Len(str) : \E k \in 1..26 : str[i] \in {Lower[k], Upper[k]}
  /\ \E k \in 1..26 : str[1] = Upper[k]

\* C17: toPascalCase gives the parts of its input between hyphens and
\* underscores, each with its first letter in upper case, joined with no
\* separator; it returns a PascalCase input unchanged and applying it to its
\* own result changes nothing
C17_PascalCase ==
  built.op = "toPascalCase" =>
    /\ built.result = capitalizeAndJoin(partsFrom(built.str, <<>>))
    /\ toPascalCase(built.result) = built.result
    /\ IsPascalCase(built.str) => built.result = built.str

\* user_profile became UserProfile
C17_Witness ==
  /\ built.op = "toPascalCase"
  /\ built.str = <<"u","s","e","r","_","p","r","o","f","i","l","e">>
  /\ built.result = <<"U","s","e","r","P","r","o","f","i","l","e">>

\* C16: the paths "/" and "" resolve to the empty type name, and for every
\* catalog the lookup of such a request returns no mapping
C16_RootPathMisses ==
  (built.op = "findTypeForUrl" /\ built.url \in {U_root, U_empty}) =>
    /\ parseUrlToType(built.url).typeName = <<>>
    /\ ~built.mapping.found
    /\ built.mapping = NoMapping

\* the empty path was looked up in a catalog that holds both names
C16_Witness ==
  /\ built.op = "findTypeForUrl"
  /\ built.url = U_empty
  /\ DOMAIN buildTypeMap(dirs) = Names
  /\ ~built.mapping.found

\* the directory names findTypeScriptFiles does not descend into
ExcludedNames == { <<"n","o","d","e","_","m","o","d","u","l","e","s">>,
                   <<"d","i","s","t">>, <<"b","u","i","l","d">>, <<".","g","i","t">> }

\* file f lies in the tree under root with no excluded directory on the way
InTree(f, root) ==
  /\ under(f, root)
  /\ LET parts == split(SubSeq(f, Len(root) + 2, Len(f)), "/")
     IN  \A i \in 1..(Len(parts) - 1) : parts[i] \notin ExcludedNames

\* C18: findTypeScriptFiles returns exactly the .ts files that exist in the
\* tree under the root, subdirectories included, those under a directory named
\* node_modules, dist, build or .git excluded, each once; a root that does
\* not exist yields the empty result
C18_ScanFindsTheTsFiles ==
  built.op = "findTypeScriptFiles" =>
    /\ Range(built.files) =
         {f \in Files : disk[f].exists /\ endsWith(f, <<".","t","s">>) /\ InTree(f, built.dir)}
    /\ Len(built.files) = Cardinality(Range(built.files))
    /\ built.dir = S_c => built.files = <<>>

\* the scan of /a found types.ts and models/order.ts while dist/out.ts and
\* models/build/gen.ts exist
C18_Witness ==
  /\ built.op = "findTypeScriptFiles"
  /\ built.dir = S_a
  /\ Range(built.files) = {F_a_types, F_a_order}
  /\ disk[F_a_out].exists /\ disk[F_a_gen].exists

\* C19: a file that cannot be read while the catalog is built is skipped and
\* nothing else: the build completes and the catalog holds the types of
\* every other file
C19_UnreadableFileSkipped ==
  (built.op = "buildTypeMap" /\ built.fsAt = disk) =>
    /\ built.typeMap # ThrowsMap
    /\ \A i \in 1..Len(dirs), T \in Names :
         Defines(dirs[i], T) => T \in DOMAIN built.typeMap

configuredDirs == <<config.contractsDir>> \o config.externalDirs

\* the file the first-wins rule gives interface T on the disk as it is: the
\* first file, in scan order, of the first directory that defines T, and
\* <<>> when no directory defines it
firstWins(T) ==
  LET defining == {i \in 1..Len(configuredDirs) : Defines(configuredDirs[i], T)}
  IN  IF defining = {} THEN <<>>
      ELSE LET first == CHOOSE i \in defining : \A j \in defining : i <= j
               files == findTypeScriptFiles(configuredDirs[first])
               at    == CHOOSE i \in 1..Len(files) :
                          /\ T \in disk[files[i]].decls
                          /\ \A j \in 1..(i - 1) : T \notin disk[files[j]].decls
           IN  files[at]

\* C21: every lookup of the handler, and so every lookup after a change or
\* unlink event was processed, resolves the type by the first-wins rule over
\* the files as they are at that moment: it misses exactly when no directory
\* defines the type, and otherwise names the winning file, which is the file
\* of the lower-priority directory once the higher-priority one is gone
C21_LookupFollowsTheFiles ==
  [][ (req.pc = "handler" /\ req'.pc # "handler") =>
        LET T == parseUrlToType(req.url).typeName
        IN  /\ (firstWins(T) = <<>>) <=> (resp'.kind = "type_not_found")
            /\ resp'.kind = "mock" => resp'.filePath = firstWins(T)
            /\ req'.pc = "generate" => req'.mapping.filePath = firstWins(T)
    ]_vars

\* /a/types.ts answered for User, was removed, its unlink event was processed,
\* and the next request for User is resolved to /b/user.ts
C21_Witness ==
  /\ last.valid /\ last.invalidated
  /\ last.filePath = F_a_types /\ last.typeName = S_User
  /\ ~disk[F_a_types].exists
  /\ req.pc = "generate"
  /\ req.mapping.typeName = S_User
  /\ req.mapping.filePath = F_b_user

\* C22: the callback of an add event leaves the cache as it is, and at the
\* moment it runs no entry of the cache has the added path as its source file
C22_AddedFileHasNoEntry ==
  [][ (events # <<>> /\ events' = Tail(events) /\ Head(events).type = "add") =>
        /\ cache' = cache
        /\ \A k \in DOMAIN cache : cache[k].filePath # Head(events).path
    ]_vars

\* C23: the watcher's error callback changes neither the cache (every entry
\* stays, with its payload and creation time) nor anything a catalog is built
\* from (the files, the directory list), and it leaves the request in flight
\* and the pending events as they are, so requests keep being served
C23_WatcherErrorFrame ==
  [][ (resp' # resp /\ resp'.kind = "watcher_error") =>
        /\ cache' = cache
        /\ disk' = disk /\ config' = config
        /\ req' = req /\ events' = events
    ]_vars

\* the error was reported while the cache held an entry and a request was
\* being forwarded
C23_Witness ==
  /\ resp.kind = "watcher_error"
  /\ cache # <<>>
  /\ req.pc = "forwarding"

\* C24: the Map a lookup reads is the finished result of one build: every
\* directory of the list was scanned into it, in order, and when the files did
\* not change under the build it is the catalog of those files; while the
\* build runs no watcher callback and no other request is handled
C24_LookupReadsCompleteCatalog ==
  [][ /\ built'.op = "findTypeForUrl" /\ built' # built =>
           /\ built.op = "building"
           /\ built'.scanned = Len(allDirs)
           /\ built'.typeMap = built.typeMap
           /\ (~built.mixed /\ disk = built.fsAt) =>
                /\ built'.typeMap = buildTypeMap(allDirs)
                /\ built'.mapping = findTypeForUrl(built.url, allDirs)
      /\ (built.op = "building" /\ built'.op = "building") =>
           /\ req' = req
           /\ cache' = cache
           /\ Len(events') >= Len(events)
    ]_vars

\* a lookup returned /b/user.ts for User from a Map built over both
\* directories while a watch event was waiting
C24_Witness ==
  /\ built.op = "findTypeForUrl"
  /\ built.scanned = 2
  /\ built.mapping.found /\ built.mapping.filePath = F_b_user
  /\ events # <<>>

\* a change or unlink event of the file waits for its callback
pendingFor(queue, filePath) ==
  \E i \in 1..Len(queue) :
    queue[i].path = filePath /\ queue[i].type \in {"change", "unlink"}

GeneratorFails ==
  /\ req.pc = "generate" /\ req'.pc # "generate"
  /\ \/ ~disk[req.mapping.filePath].exists
     \/ req.mapping.typeName \notin disk[req.mapping.filePath].decls

\* what went wrong in the generator, as the answer's message has to tell it
CauseOnDisk ==
  IF ~disk[req.mapping.filePath].exists THEN "ENOENT: no such file or directory"
  ELSE "Interface not found in file"

\* C26 as stated: a generator failure is answered with status 500 and the
\* error "Mock generation failed"
C26_GenerationFailureIs500 ==
  [][ GeneratorFails =>
        /\ resp'.kind = "generation_failed"
        /\ resp'.error = "Mock generation failed"
        /\ resp'.status = 500
    ]_vars

\* C26: a generator failure is answered once with the error "Mock generation
\* failed", under status 500 or, when the request carries a valid
\* x-mock-status, under that status; the message names the interface and
\* carries the original cause; the cache is left as it is; and the request is
\* over, the generator is not called again for it
C26_GenerationFailureAnswered ==
  [][ GeneratorFails =>
        /\ resp'.kind = "generation_failed"
        /\ resp'.error = "Mock generation failed"
        /\ resp'.status = IF req.forcedStatus # 0 THEN req.forcedStatus ELSE 500
        /\ resp'.message[2] = req.mapping.typeName
        /\ resp'.message[3] = CauseOnDisk
        /\ cache' = cache
        /\ req' = Idle
    ]_vars

\* the file was removed between the lookup and the generator call of a
\* request without x-mock-status, while the cache held an entry: the answer
\* is the 500
C26_Witness ==
  /\ resp.kind = "generation_failed"
  /\ resp.status = 500
  /\ resp.message[3] = "ENOENT: no such file or directory"
  /\ cache # <<>>

\* the handler looks up a URL whose type name no directory defines
LookupOfAbsentType ==
  /\ req.pc = "handler" /\ req'.pc # "handler"
  /\ \A i \in 1..Len(allDirs) : ~Defines(allDirs[i], parseUrlToType(req.url).typeName)

\* C27 as stated: a request on the mock path for a name absent from the
\* catalog is answered 404 "Type not found"
C27_TypeNotFoundIs404 ==
  [][ LookupOfAbsentType =>
        /\ resp'.kind = "type_not_found"
        /\ resp'.error = "Type not found"
        /\ resp'.status = 404
    ]_vars

\* C27: a request on the mock path for a name absent from the catalog is
\* answered with the error "Type not found", which no other outcome uses,
\* under status 404 or, when the request carries a valid x-mock-status, under
\* that status; the cache is left as it is and the server is ready for the
\* next request
C27_TypeNotFoundAnswered ==
  [][ LookupOfAbsentType =>
        /\ resp'.kind = "type_not_found"
        /\ resp'.error = "Type not found"
        /\ resp'.status = IF req.forcedStatus # 0 THEN req.forcedStatus ELSE 404
        /\ cache' = cache
        /\ req' = Idle /\ config' = config /\ events' = events
    ]_vars

\* /api/orders was answered 404 while the cache held an entry
C27_Witness ==
  /\ resp.kind = "type_not_found"
  /\ resp.status = 404
  /\ cache # <<>>
  /\ req.pc = "idle"

\* an external directory of the options is missing
MissingExternal(there) ==
  \E i \in 1..Len(cli.options.externalDir) : cli.options.externalDir[i] \notin there

\* C28: a contracts directory missing at launch is created and the command
\* goes on to the external directories; an external directory that is missing
\* when the command checks it ends the command with exit code 1 before
\* startServer is called, so the server is started only with every external
\* directory there; nothing is created but the contracts directory; and an
\* exited command takes no further step
C28_StartupDirectoryChecks ==
  [][ /\ cli.pc = "contractsDir" =>
           /\ cli'.pc = "externalDirs"
           /\ present' = present \cup {cli.options.dir}
      /\ (cli.pc = "externalDirs" /\ MissingExternal(present)) =>
           /\ cli'.pc \in {"externalDirs", "exited"}
           /\ (cli.i <= Len(cli.options.externalDir)
                 /\ cli.options.externalDir[cli.i] \notin present) =>
                (cli'.pc = "exited" /\ cli'.exitCode = 1)
      /\ cli.pc # "contractsDir" => present' = present
      /\ cli'.pc = "exited" => (config' = NoConfig /\ MissingExternal(present'))
      /\ cli'.pc \in {"startServer", "serving"} =>
           /\ ~MissingExternal(present')
           /\ present' = cli.launchedWith \cup {cli.options.dir}
      /\ cli'.pc = "serving" =>
           /\ config'.contractsDir = cli.options.dir
           /\ config'.externalDirs = cli.options.externalDir
      /\ cli.pc \in {"exited", "serving"} => cli' = cli
    ]_vars

\* launched with /a for contracts and [/b, /c] external while only /b was
\* there: /a was created, /b passed, and the command exited with code 1 at /c
\* without a server
C28_Witness ==
  /\ cli.pc = "exited" /\ cli.exitCode = 1
  /\ cli.options.dir = S_a
  /\ cli.options.externalDir = <<S_b, S_c>>
  /\ cli.launchedWith = {S_b}
  /\ present = {S_a, S_b}
  /\ config = NoConfig

\* the schema of a base type as the classification gives it: the primitives
\* map to themselves, Date to a string with a date format, the inline
\* composite to object, anything else to string
kindOfBase(base) ==
  CASE base \in {"string", "number", "boolean"} -> [type |-> base]
    [] base = "Date" -> [type |-> "string", format |-> "date-time"]
    [] base = "composite" -> [type |-> "object"]
    [] OTHER -> [type |-> "string"]

\* X[] is an array of the kind of X
RECURSIVE kindOfArray(_, _)
kindOfArray(base, dims) ==
  IF dims = 0 THEN kindOfBase(base)
  ELSE [type |-> "array", items |-> kindOfArray(base, dims - 1)]

\* C29: the schema of a declared type is the kind of its base type, wrapped
\* in one array per [], and an absent alternative (null, undefined) of a
\* union changes nothing, wherever it stands in the union
C29_FieldKindClassification ==
  built.op = "typeToOpenAPISchema" =>
    built.schema = kindOfArray(built.declaration.base, built.declaration.dims)

\* C30: the array generateMockArray returns has exactly options.arrayLength
\* items when the options give a length, and otherwise from 3 to 10 items;
\* the generator was called once for each item, and each item is an object
\* the generator returns for the interface
C30_ArrayLength ==
  (built.op = "generateMockArray" /\ ~built.threw) =>
    /\ built.options.given => Len(built.items) = built.options.arrayLength
    /\ ~built.options.given => (3 <= Len(built.items) /\ Len(built.items) <= 10)
    /\ built.calls = Len(built.items)
    /\ \A i \in 1..Len(built.items) :
         built.items[i] \in generateMockFromInterface(F_a_types, S_User)

\* an array of 10 items returned for options without a length, its first two
\* items different outcomes of the generator
C30_Witness ==
  /\ built.op = "generateMockArray" /\ ~built.threw
  /\ ~built.options.given
  /\ Len(built.items) = 10
  /\ built.items[1] # built.items[2]

\* the scanner puts the file in the list of one of the server's directories
scanned(filePath) ==
  \E i \in 1..Len(allDirs) : filePath \in Range(findTypeScriptFiles(allDirs[i]))

\* C31: under hot-reload, a change or a removal of a file the scanner finds
\* puts the change or unlink event of that file in the watcher's queue, the
\* event whose callback invalidates the file's entries
C31_ScannedFilesAreWatched ==
  [][ config.hotReload =>
        \A f \in Files :
          (disk[f].exists /\ disk'[f] # disk[f] /\ scanned(f)) =>
            events' = Append(events, [type |-> IF disk'[f].exists THEN "change"
                                               ELSE "unlink",
                                      path |-> f])
    ]_vars

\* C32: the callback of a change or unlink event leaves the files as they are
\* and the cache as one invalidateFile of the event's path leaves it;
\* processing the same event again, at once or later in a burst, would change
\* nothing more (invalidateFile is idempotent, as is clear), and with no
\* entry of the path in the cache the callback changes nothing
C32_EventProcessingIdempotent ==
  [][ (events # <<>> /\ Len(events') < Len(events)
         /\ Head(events).type \in {"change", "unlink"}) =>
        \A path \in {Head(events).path} :
          /\ disk' = disk
          /\ cache' = cacheInvalidateFile(path)
          /\ cacheInvalidateFile(path)' = cache'
          /\ (\A k \in DOMAIN cache : cache[k].filePath # path) => cache' = cache
          /\ cacheClear' = cacheClear
    ]_vars

\* a burst of two equal events of /a/types.ts waits while the cache holds
\* an entry of that file and one of /a/.draft.ts
C32_Witness ==
  /\ Len(events) = 2 /\ events[1] = events[2]
  /\ events[1].path = F_a_types
  /\ \E k \in DOMAIN cache : cache[k].filePath = F_a_types
  /\ \E k \in DOMAIN cache : cache[k].filePath = F_a_draft


\* the request is inside dynamicRouteHandler
inHandler(r) == r.pc \in {"handler", "generate"}

\* the answers dynamicRouteHandler writes, each with the statuses it can carry
handlerAnswer(answer, forcedStatus) ==
  \/ answer.kind = "mock" /\ answer.status = orElse(forcedStatus, 200)
  \/ answer.kind = "forced_error" /\ answer.status = forcedStatus /\ forcedStatus >= 400
  \/ answer.kind = "type_not_found" /\ answer.status = orElse(forcedStatus, 404)
  \/ answer.kind = "generation_failed" /\ answer.status = orElse(forcedStatus, 500)

C34_GateAndHandlerAgree ==
  config.targetUrl => resp.kind # "type_not_found"


\* C35: with hot-reload, when the watcher's queue is empty every entry of the
\* cache holds a payload generated from the text its file has now
C35_QuietCacheIsFresh ==
  (config.hotReload /\ events = <<>>) =>
    \A k \in DOMAIN cache :
      /\ disk[cache[k].filePath].exists
      /\ cache[k].schema.rev = disk[cache[k].filePath].rev


\* C36: the forced status of a request is 0 (none) or an integer from 100 to
\* 599 of the x-mock-status header, and when it is not 0 the response that
\* ends the dynamic route handler carries exactly that status, whether it is
\* the type-not-found answer, the forced error, a cached or a generated
\* payload, or the generation failure
C36_ForcedStatusOnEveryAnswer ==
  [][ /\ (req.pc = "idle" /\ req'.pc # "idle") =>
           \/ req'.forcedStatus = 0
           \/ req'.forcedStatus \in StatusHeaders /\ req'.forcedStatus \in 100..599
      /\ (inHandler(req) /\ ~inHandler(req') /\ req.forcedStatus # 0) =>
           /\ resp'.kind \in {"type_not_found", "forced_error", "mock",
                              "generation_failed"}
           /\ resp'.status = req.forcedStatus
    ]_vars

\* the failure of the generator answered with the forced status 399
C36_Witness ==
  /\ req.pc = "idle"
  /\ resp.kind = "generation_failed"
  /\ resp.status = 399


\* C37: the handler answers a request for a type it resolves with the forced
\* error when the forced status is 400 or more: the answer is made of the
\* forced status alone, whatever the cache holds, the cache stays as it is
\* and the request never reaches the generator; the step answering type not
\* found leaves the cache as it is too
C37_ForcedErrorAndNotFoundFrame ==
  [][ /\ (req.pc = "handler" /\ req' # req /\ req.forcedStatus >= 400
            /\ findTypeForUrl(req.url, allDirs) # Throws
            /\ findTypeForUrl(req.url, allDirs).found) =>
           /\ resp' = [status |-> req.forcedStatus, kind |-> "forced_error"]
           /\ req' = Idle
           /\ cache' = cache
      /\ (req.pc = "generate") => req.forcedStatus < 400
      /\ (resp'.kind \in {"forced_error", "type_not_found"} /\ resp' # resp) =>
           cache' = cache
    ]_vars

\* a forced error 599 answered while the cache holds the payload of the
\* type requested
C37_Witness ==
  /\ resp.kind = "forced_error" /\ resp.status = 599
  /\ req.pc = "idle"
  /\ cache # <<>>


\* C38: the step of the handler that answers from the cache leaves the cache
\* as it was: the entry read is still there with the payload just served and
\* its creation time, every other entry is unchanged and none is added
C38_CacheHitFrame ==
  [][ (resp'.kind = "mock" /\ resp' # resp /\ resp'.source = "cache") =>
        \A key \in {generateKey(resp'.typeName, resp'.filePath)} :
          /\ key \in DOMAIN cache
          /\ resp'.body = cache[key].schema
          /\ DOMAIN cache' = DOMAIN cache
          /\ \A k \in DOMAIN cache :
               /\ cache'[k].schema = cache[k].schema
               /\ cache'[k].lastUpdated = cache[k].lastUpdated
               /\ cache'[k] = cache[k]
    ]_vars

\* a payload served from the cache, under the forced status 201
C38_Witness ==
  /\ resp.kind = "mock" /\ resp.source = "cache"
  /\ resp.status = 201
  /\ generateKey(resp.typeName, resp.filePath) \in DOMAIN cache


\* C39: the array path the OpenAPI document lists for an interface of the
\* catalog resolves to that interface as an array, and its single-item path
\* resolves to that interface as a single object
C39_ListedPathsResolveBack ==
  /\ built.op = "arrayPath" =>
       /\ built.mapping.found
       /\ built.mapping.typeName = built.interfaceName
       /\ built.mapping.isArray
  /\ built.op = "singularPath" =>
       /\ built.mapping.found
       /\ built.mapping.typeName = built.interfaceName
       /\ ~built.mapping.isArray


\* C40: every entry of the cache is stored under the key generated from its
\* own interfaceName and filePath fields, and a call of invalidateFile
\* removes the keys generated from that file, all of them and no other
C40_EntriesCarryTheirKey ==
  /\ [](\A k \in DOMAIN cache :
          k = generateKey(cache[k].interfaceName, cache[k].filePath))
  /\ [][ (got'.op = "invalidateFile" /\ got' # got) =>
           /\ DOMAIN cache \ DOMAIN cache' =
                {k \in DOMAIN cache :
                   \E n \in Names : k = generateKey(n, got'.filePath)}
           /\ \A k \in DOMAIN cache' : k \in DOMAIN cache /\ cache'[k] = cache[k]
       ]_vars

\* invalidateFile removed the two entries of one file and left the two of
\* the other file
C40_Witness ==
  /\ got.op = "invalidateFile" /\ got.count = 2
  /\ Cardinality(DOMAIN cache) = 2
  /\ \A k \in DOMAIN cache : cache[k].filePath # got.filePath

====
